---------------------------- MODULE Spec2Model ----------------------------
(***************************************************************************)
(* Verification model of the workspace-assistant backend:                  *)
(*   - backend/guardrails.py            (GuardrailsSystem, apply_guardrails)*)
(*   - backend/agents/email_agent_modern.py (tool-calling email graph)     *)
(*   - backend/orchestrator_modern.py   (router orchestrator and its graph)*)
(*   - backend/orchestrator_react.py    (ReAct orchestrator entry point)   *)
(*   - backend/orchestrator.py          (legacy workflow graph)            *)
(*   - backend/main.py                  (HTTP endpoints, ConnectionManager)*)
(*   - backend/agents/task_agent.py     (identify_blockers)                *)
(*                                                                         *)
(* Python strings are modelled as sequences of one-character strings, so   *)
(* that the regular expressions and substring tests of the guardrails are  *)
(* computed on the text and not assumed.                                   *)
(***************************************************************************)
EXTENDS Integers, Sequences, FiniteSets, TLC

VARIABLES
    \* GuardrailsSystem (guardrails.py:40-42) and the wall clock it reads
    action_history,     \* self.action_history: sequence of entries
    clock,              \* datetime.now(), in seconds since process start
    call,               \* the guardrail call made by the last step
    verdict,            \* the dict that call returned
    rate_blocked,       \* some check_email_send so far was refused by the rate limit
    \* EmailAgentState of one run of email_agent_graph (email_agent_modern.py:29-36)
    node,               \* the graph node about to run
    messages,           \* state["messages"]
    requires_approval,  \* state["requires_approval"]
    result,             \* state["result"]
    context_length,     \* state["context_length"]
    user_input,         \* state["user_input"]
    agent_action,       \* state["action"]
    llm_calls,          \* number of llm_with_tools.invoke calls of the run
    prompts,            \* operator prompts of the approval node, in order
    executed,           \* tool calls run by the tools node, in order
    \* the orchestrators' process_request (orchestrator_modern.py, orchestrator_react.py)
    conversation_messages,  \* WorkspaceAssistant.conversation_messages
    session_history,        \* WorkspaceAssistant.session_history
    router_history,         \* WorkspaceOrchestrator.session_history
    request,                \* trace of the last process_request call
    http_pending,           \* messages of the ai_chat requests waiting in `await request.json()`
    react_log,              \* (input, returned reply) of each ReAct call since the last clear
    react_results,          \* totals over the results graph.invoke returned to the ReAct calls
    \* one run of the legacy workflow graph (orchestrator.py, graph_state.py)
    graph_state,        \* the GraphState dict, agent_actions being the reducer channel
    wf_node,            \* the node of the workflow graph about to run
    wf_visited,         \* the nodes the run has executed, in order
    wf_raised,          \* str(e) of the exception raised inside the workflow state, or None
    wf_local_results,   \* the workflow state's local `results` dict when it returned
    \* ConnectionManager and one run of its broadcast (main.py:25-41)
    active_connections, \* self.active_connections
    bc_pc,              \* "idle", "sending" (suspended in send_json) or "done"
    bc_index,           \* the list iterator's index: elements the for loop has taken
    bc_current,         \* the connection whose send_json is in progress, 0 when none
    bc_attempted,       \* connections send_json was called on in this broadcast
    bc_failed,          \* connections whose send_json raised in this broadcast
    bc_stayers,         \* connections in the list since the broadcast began
    bc_raised,          \* the broadcast let an exception escape
    \* one call of a pure function (AgentRouter.check_loop, TaskAgent.identify_blockers)
    pure_in,            \* the function and its arguments
    pure_out,           \* what the call returned, once it has
    \* MemoryManager (memory.py) and its calls of store_context
    mem_index,          \* the vectors of self.index, by id
    mem_call,           \* the last store_context call: its ordinal, id and return value
    \* the ContextManager singleton (context_manager.py:103) and the server's replies
    full_history,       \* context_manager.full_history
    summarized_context, \* context_manager.summarized_context
    http_response,      \* what the last endpoint call of main.py returned
    \* one run of the router orchestrator's graph (orchestrator_modern.py:316-340)
    workspace_state,    \* the WorkspaceState dict
    rt_node,            \* the node of the graph about to run
    rt_ran              \* the agent nodes the run has executed, with the call each made

guardVars == <<action_history, clock, call, verdict, rate_blocked>>
graphVars == <<node, messages, requires_approval, result, context_length,
               user_input, agent_action, llm_calls, prompts, executed>>
orchVars  == <<conversation_messages, session_history, router_history, request,
               http_pending, react_log, react_results>>
legacyVars == <<graph_state, wf_node, wf_visited, wf_raised, wf_local_results>>
wsVars    == <<active_connections, bc_pc, bc_index, bc_current,
               bc_attempted, bc_failed, bc_stayers, bc_raised>>
pureVars  == <<pure_in, pure_out>>
routerVars == <<workspace_state, rt_node, rt_ran>>
memVars   == <<mem_index, mem_call>>
ctxVars   == <<full_history, summarized_context, http_response>>
laterVars == <<legacyVars, wsVars, pureVars, routerVars, memVars, ctxVars>>
notLegacy == <<guardVars, graphVars, orchVars, wsVars, pureVars, routerVars, memVars, ctxVars>>
notWs     == <<guardVars, graphVars, orchVars, legacyVars, pureVars, routerVars, memVars, ctxVars>>
notPure   == <<guardVars, graphVars, orchVars, legacyVars, wsVars, routerVars, memVars, ctxVars>>
notRouter == <<guardVars, graphVars, orchVars, legacyVars, wsVars, pureVars, memVars, ctxVars>>
notMem    == <<guardVars, graphVars, orchVars, legacyVars, wsVars, pureVars, routerVars, ctxVars>>
serverFrame == <<guardVars, graphVars, legacyVars, wsVars, pureVars, routerVars, memVars>>
vars      == <<guardVars, graphVars, orchVars, laterVars>>

Min(a, b) == IF a < b THEN a ELSE b

(***************************************************************************)
(* Text: characters, classes, str.lower(), substring test                  *)
(***************************************************************************)
LowerSeq == <<"a","b","c","d","e","f","g","h","i","j","k","l","m","n","o","p","q","r","s","t","u","v","w","x","y","z">>
UpperSeq == <<"A","B","C","D","E","F","G","H","I","J","K","L","M","N","O","P","Q","R","S","T","U","V","W","X","Y","Z">>
DigitSeq == <<"0","1","2","3","4","5","6","7","8","9">>

Range(s) == { s[i] : i \in DOMAIN s }

LowerCase == Range(LowerSeq)
UpperCase == Range(UpperSeq)
Letter    == LowerCase \cup UpperCase
Digit     == Range(DigitSeq)              \* \d
WordChar  == Letter \cup Digit \cup {"_"} \* \w
Space     == {" ", "\t", "\n"}            \* \s

\* str.lower() on one character, then on a string
LowerChar(c) ==
    IF c \in UpperCase
    THEN LowerSeq[CHOOSE i \in DOMAIN UpperSeq : UpperSeq[i] = c]
    ELSE c

Lower(s) == [ i \in DOMAIN s |-> LowerChar(s[i]) ]

\* Python's `kw in s` for strings
Contains(s, kw) ==
    \E i \in 1..(Len(s) - Len(kw) + 1) : SubSeq(s, i, i + Len(kw) - 1) = kw

(***************************************************************************)
(* Regular expressions (re.search / re.match), as far as the patterns of   *)
(* guardrails.py need them.  A pattern is a sequence of items; an item is  *)
(* a character class repeated lo..hi times, a word boundary \b, or $.      *)
(* A position is the index of the next character to read.                  *)
(***************************************************************************)
Cls(cs, lo, hi) == [k |-> "cls", cs |-> cs, lo |-> lo, hi |-> hi, open |-> FALSE]
AtLeast(cs, lo) == [k |-> "cls", cs |-> cs, lo |-> lo, hi |-> lo, open |-> TRUE]
Lit(c)          == Cls({c}, 1, 1)
Opt(cs)         == Cls(cs, 0, 1)
WB              == [k |-> "wb",  cs |-> {}, lo |-> 0, hi |-> 0, open |-> FALSE]
EOS             == [k |-> "eos", cs |-> {}, lo |-> 0, hi |-> 0, open |-> FALSE]

IsWordAt(s, p) == p \in DOMAIN s /\ s[p] \in WordChar

\* positions reachable from p by matching one item
StepItem(it, s, p) ==
    CASE it.k = "cls" ->
           LET most == IF it.open THEN Len(s) - p + 1
                                   ELSE Min(it.hi, Len(s) - p + 1)
           IN  { p + n : n \in { m \in it.lo..most :
                                   \A j \in 0..(m - 1) : s[p + j] \in it.cs } }
      [] it.k = "wb"  ->
           IF IsWordAt(s, p - 1) # IsWordAt(s, p) THEN {p} ELSE {}
      [] it.k = "eos" ->
           IF p = Len(s) + 1 \/ (p = Len(s) /\ s[p] = "\n") THEN {p} ELSE {}

RECURSIVE RunFrom(_, _, _, _)
RunFrom(pat, i, s, P) ==
    IF i > Len(pat) \/ P = {} THEN P
    ELSE RunFrom(pat, i + 1, s, UNION { StepItem(pat[i], s, p) : p \in P })

re_search(pat, s) == RunFrom(pat, 1, s, 1..(Len(s) + 1)) # {}
re_match(pat, s)  == RunFrom(pat, 1, s, {1}) # {}

\* a literal word under re.IGNORECASE
RECURSIVE LitCI(_)
LitCI(w) ==
    IF w = <<>> THEN <<>>
    ELSE <<Cls({ c \in Letter \cup {Head(w)} : LowerChar(c) = LowerChar(Head(w)) }, 1, 1)>>
         \o LitCI(Tail(w))

(***************************************************************************)
(* Inputs the calls are made with                                          *)
(***************************************************************************)
T_plain     == <<"c","h","e","c","k"," ","m","y"," ","i","n","b","o","x">>
T_card      == <<"c","a","r","d"," ","4","1","1","1"," ","1","1","1","1"," ","1","1","1","1"," ","1","1","1","1">>
T_ssn       == <<"s","s","n"," ","1","2","3","-","4","5","-","6","7","8","9">>
T_password  == <<"p","a","s","s","w","o","r","d",":"," ","h","u","n","t","e","r","2">>
T_api_key   == <<"A","P","I","_","K","E","Y","=","a","b","c","-","1">>
T_mail      == <<"m","a","i","l"," ","b","o","b","@","x",".","i","o">>
T_drop      == <<"D","R","O","P"," ","T","A","B","L","E"," ","u","s","e","r","s">>
T_trunc     == <<"t","r","u","n","c","a","t","e"," ","4","1","1","1","1","1","1","1","1","1","1","1","1","1","1","1">>
T_digits    == <<"i","d"," ","4","1","1","1","1","1","1","1","1","1","1","1","1","1","1","1","1">>
T_traversal == <<".",".","/","e","t","c","/","p","a","s","s","w","d">>

R_ok    == <<"b","o","b","@","x",".","i","o">>
R_bad   == <<"b","o","b">>
R_two   == <<"a","@","x",".","i","o",",","b","@","x",".","i","o">>
R_six   == <<"a","@","x",".","i","o",",","b","@","x",".","i","o",",","c","@","x",".","i","o",",","d","@","x",".","i","o",",","e","@","x",".","i","o",",","f","@","x",".","i","o">>
R_semis == <<"a","@","x",".","i","o",";","b","@","x",".","i","o",";","c","@","x",".","i","o",";","d","@","x",".","i","o",";","e","@","x",".","i","o",";","f","@","x",".","i","o">>

S_delete      == <<"d","e","l","e","t","e">>
S_create      == <<"c","r","e","a","t","e">>
S_file_delete == <<"f","i","l","e","_","d","e","l","e","t","e">>
S_file_write  == <<"f","i","l","e","_","w","r","i","t","e">>
S_send_email  == <<"s","e","n","d","_","e","m","a","i","l">>
S_task_delete == <<"t","a","s","k","_","d","e","l","e","t","e">>
S_user_request          == <<"u","s","e","r","_","r","e","q","u","e","s","t">>
S_gmail_send_email      == <<"g","m","a","i","l","_","s","e","n","d","_","e","m","a","i","l">>
S_calendar_create_event == <<"c","a","l","e","n","d","a","r","_","c","r","e","a","t","e","_","e","v","e","n","t">>
S_calendar_delete_event == <<"c","a","l","e","n","d","a","r","_","d","e","l","e","t","e","_","e","v","e","n","t">>
K_input   == <<"i","n","p","u","t">>
K_to      == <<"t","o">>
K_subject == <<"s","u","b","j","e","c","t">>
K_body    == <<"b","o","d","y">>

K_path    == <<"p","a","t","h">>
K_content == <<"c","o","n","t","e","n","t">>
K_all     == <<"a","l","l">>
K_summary == <<"s","u","m","m","a","r","y">>
K_event_id == <<"e","v","e","n","t","_","i","d">>

Texts      == {T_plain, T_card, T_ssn, T_password, T_api_key, T_mail, T_drop, T_trunc, T_digits}
Recipients == {R_ok, R_bad, R_two, R_six, R_semis}

T_subject == <<"h","i">>

EmailArgs(to, subject, body) == << <<K_to, to>>, <<K_subject, subject>>, <<K_body, body>> >>

\* (action, args) pairs apply_guardrails is called with
UserRequests  == { <<S_user_request, << <<K_input, t>> >> >> : t \in Texts }
SendRequests  == { <<S_gmail_send_email, EmailArgs(to, T_subject, body)>> :
                     to \in {R_ok, R_six}, body \in {T_plain, T_card} }
                 \cup { <<S_gmail_send_email, << <<K_body, T_plain>> >> >> }
OtherRequests == { <<S_file_delete, << <<K_path, T_traversal>> >> >>,
                   <<S_file_write,  << <<K_path, T_plain>>, <<K_content, T_card>> >> >>,
                   <<S_send_email,  << <<K_to, R_ok>> >> >>,
                   <<S_task_delete, << <<K_all, T_subject>> >> >>,
                   <<S_task_delete, << <<K_input, T_subject>> >> >> }
CalendarRequests == { <<S_calendar_create_event, << <<K_summary, T_subject>> >> >>,
                      <<S_calendar_delete_event, << <<K_event_id, T_subject>> >> >> }
DispatchCalls == UserRequests \cup SendRequests \cup OtherRequests \cup CalendarRequests

\* str(args) of a dict of strings: {'k': 'v', 'k2': 'v2'}; args is the sequence
\* of the dict's (key, value) pairs in insertion order
RECURSIVE ReprItems(_)
ReprItems(args) ==
    IF args = <<>> THEN <<>>
    ELSE <<"'">> \o args[1][1] \o <<"'", ":", " ", "'">> \o args[1][2] \o <<"'">>
         \o (IF Len(args) > 1 THEN <<",", " ">> ELSE <<>>) \o ReprItems(Tail(args))

StrDict(args) == <<"{">> \o ReprItems(args) \o <<"}">>

HasKey(args, key) == \E i \in DOMAIN args : args[i][1] = key

ArgGet(args, key, default) ==
    IF HasKey(args, key)
    THEN args[CHOOSE i \in DOMAIN args : args[i][1] = key][2]
    ELSE default

KnownTexts == Texts \cup { StrDict(c[2]) : c \in DispatchCalls }

(***************************************************************************)
(* guardrails.py: GuardrailsSystem                                         *)
(***************************************************************************)
None == "None"      \* Python's None, where a dict value may be None

EmptyDict == [k \in {} |-> None]

\* dict.get(key, default) on a record
DictGet(d, key, default) == IF key \in DOMAIN d THEN d[key] ELSE default

EmailLocal  == Letter \cup Digit \cup {".", "_", "%", "+", "-"}
EmailDomain == Letter \cup Digit \cup {".", "-"}

\* SENSITIVE_PATTERNS, in the dict's order; every search runs with re.IGNORECASE
SENSITIVE_PATTERNS == <<
    [name |-> "credit_card",
     pat  |-> <<WB, Cls(Digit, 4, 4), Opt(Space \cup {"-"}), Cls(Digit, 4, 4),
                Opt(Space \cup {"-"}), Cls(Digit, 4, 4), Opt(Space \cup {"-"}),
                Cls(Digit, 4, 4), WB>>],
    [name |-> "ssn",
     pat  |-> <<WB, Cls(Digit, 3, 3), Lit("-"), Cls(Digit, 2, 2), Lit("-"),
                Cls(Digit, 4, 4), WB>>],
    [name |-> "password",
     pat  |-> LitCI(<<"p","a","s","s","w","o","r","d">>)
              \o <<AtLeast(Space \cup {":", "="}, 1),
                   AtLeast(WordChar \cup {"@", "#", "$", "%"}, 1)>>],
    [name |-> "api_key",
     pat  |-> LitCI(<<"a","p","i">>) \o <<Opt({"_"})>> \o LitCI(<<"k","e","y">>)
              \o <<AtLeast(Space \cup {":", "="}, 1),
                   AtLeast(WordChar \cup {"-"}, 1)>>],
    [name |-> "email",
     pat  |-> <<WB, AtLeast(EmailLocal, 1), Lit("@"), AtLeast(EmailDomain, 1),
                Lit("."), AtLeast(Letter \cup {"|"}, 2), WB>>] >>

PatternNamed(name) ==
    LET hit == { i \in DOMAIN SENSITIVE_PATTERNS : SENSITIVE_PATTERNS[i].name = name }
    IN  IF hit = {} THEN <<>> ELSE SENSITIVE_PATTERNS[CHOOSE i \in hit : TRUE].pat

RECURSIVE DetectedFrom(_, _)
DetectedFrom(i, text) ==
    IF i > Len(SENSITIVE_PATTERNS) THEN <<>>
    ELSE (IF re_search(SENSITIVE_PATTERNS[i].pat, text)
          THEN <<SENSITIVE_PATTERNS[i].name>> ELSE <<>>)
         \o DetectedFrom(i + 1, text)

\* check_sensitive_content: the categories that match, in order (the match
\* counts, which only appear in the warning text, are left out)
check_sensitive_content(text) ==
    LET detected_patterns == DetectedFrom(1, text)
    IN  [detected |-> Len(detected_patterns) > 0, patterns |-> detected_patterns]

\* check_sensitive_content on the texts the calls are made with, computed once
SensitiveOf == [ t \in KnownTexts |-> check_sensitive_content(t) ]

Sensitive(text) ==
    IF text \in KnownTexts THEN SensitiveOf[text] ELSE check_sensitive_content(text)

DANGEROUS_KEYWORDS == <<
    <<"d","e","l","e","t","e"," ","a","l","l">>,
    <<"r","e","m","o","v","e"," ","a","l","l">>,
    <<"d","r","o","p"," ","t","a","b","l","e">>,
    <<"t","r","u","n","c","a","t","e">>,
    <<"f","o","r","m","a","t"," ","d","r","i","v","e">> >>

BulkKeys      == { <<"a","l","l">>, <<"m","u","l","t","i","p","l","e">>, <<"b","a","t","c","h">> }

check_dangerous_action(action, args) ==
    LET action_text == Lower(action \o <<" ">> \o StrDict(args))
        hits == { i \in DOMAIN DANGEROUS_KEYWORDS : Contains(action_text, DANGEROUS_KEYWORDS[i]) }
    IN  IF hits # {}
        THEN [dangerous |-> TRUE, reason |-> "Contains dangerous keyword", severity |-> "high"]
        ELSE IF Contains(action, S_delete) /\ \E k \in BulkKeys : HasKey(args, k)
        THEN [dangerous |-> TRUE, reason |-> "Bulk delete operation detected", severity |-> "medium"]
        ELSE IF action \in {S_file_delete, S_file_write} /\ Contains(StrDict(args), <<".", ".">>)
        THEN [dangerous |-> TRUE, reason |-> "Potential directory traversal attack", severity |-> "high"]
        ELSE [dangerous |-> FALSE, reason |-> None, severity |-> "none"]

RATE_LIMITS ==
    [email_send      |-> [count |-> 10,  window |-> 3600],
     calendar_create |-> [count |-> 20,  window |-> 3600],
     api_calls       |-> [count |-> 100, window |-> 60]]

\* (mutant) an entry as old as the window still counts
RecentActions_inclusive(history, now, operation_type) ==
    { i \in DOMAIN history :
        /\ history[i].type = operation_type
        /\ now - history[i].timestamp <= RATE_LIMITS[operation_type].window }

\* the entries of `history` of this type that are newer than the window at `now`
RecentActions(history, now, operation_type) ==
    { i \in DOMAIN history :
        /\ history[i].type = operation_type
        /\ now - history[i].timestamp < RATE_LIMITS[operation_type].window }

\* (mutant) the limit is compared with > instead of >=
check_rate_limit_off_by_one(history, now, operation_type) ==
    IF operation_type \notin DOMAIN RATE_LIMITS
    THEN [allowed |-> TRUE, reason |-> "No limit defined"]
    ELSE LET max_count      == RATE_LIMITS[operation_type].count
             recent_actions == RecentActions(history, now, operation_type)
         IN  IF Cardinality(recent_actions) > max_count
             THEN [allowed |-> FALSE, reason |-> "Rate limit exceeded",
                   reset_time |-> history[CHOOSE i \in recent_actions :
                                            \A j \in recent_actions : i <= j].timestamp]
             ELSE [allowed |-> TRUE, remaining |-> max_count - Cardinality(recent_actions)]

check_rate_limit(history, now, operation_type) ==
    IF operation_type \notin DOMAIN RATE_LIMITS
    THEN [allowed |-> TRUE, reason |-> "No limit defined"]
    ELSE LET max_count      == RATE_LIMITS[operation_type].count
             recent_actions == RecentActions(history, now, operation_type)
         IN  IF Cardinality(recent_actions) >= max_count
             THEN [allowed |-> FALSE, reason |-> "Rate limit exceeded",
                   reset_time |-> history[CHOOSE i \in recent_actions :
                                            \A j \in recent_actions : i <= j].timestamp]
             ELSE [allowed |-> TRUE, remaining |-> max_count - Cardinality(recent_actions)]

_is_valid_email(email) ==
    re_match(<<AtLeast(EmailLocal, 1), Lit("@"), AtLeast(EmailDomain, 1), Lit("."),
               AtLeast(Letter, 2), EOS>>, email)

\* _is_valid_email on the recipients the calls are made with, computed once
ValidOf == [ r \in Recipients |-> _is_valid_email(r) ]

IsValid(email) ==
    IF email \in Recipients THEN ValidOf[email] ELSE _is_valid_email(email)

\* len(re.split("[,;]", to))
NumRecipients(to) == Cardinality({ i \in DOMAIN to : to[i] \in {",", ";"} }) + 1

\* (mutant) a sensitive body adds its warning but does not ask for a human
check_email_send_unflagged(history, now, logged, to, subject, body) ==
    LET sensitive_check == Sensitive(body)
        warnings0  == IF sensitive_check.detected
                      THEN <<"Sensitive content detected">> ELSE <<>>
        rate_check == check_rate_limit(history, now, "email_send")
        mass       == (\E i \in DOMAIN to : to[i] \in {",", ";"}) /\ NumRecipients(to) > 5
    IN  IF ~rate_check.allowed
        THEN [verdict |-> [approved |-> FALSE,
                           warnings |-> Append(warnings0, rate_check.reason),
                           requires_human |-> FALSE,
                           reason |-> "Rate limit exceeded"],
              history |-> history]
        ELSE IF ~IsValid(to)
        THEN [verdict |-> [approved |-> FALSE,
                           warnings |-> Append(warnings0, "Invalid email address"),
                           requires_human |-> FALSE,
                           reason |-> "Invalid recipient"],
              history |-> history]
        ELSE [verdict |-> [approved |-> TRUE,
                           warnings |-> warnings0 \o (IF mass THEN <<"Mass email">> ELSE <<>>),
                           requires_human |-> mass],
              history |-> Append(history, [type |-> "email_send", timestamp |-> logged, to |-> to])]

\* (mutant) a refused check is logged like an approved one
check_email_send_logs_refused(history, now, logged, to, subject, body) ==
    LET rate_check == check_rate_limit(history, now, "email_send")
        approved   == rate_check.allowed /\ IsValid(to)
    IN  [verdict |-> IF approved
                     THEN [approved |-> TRUE, warnings |-> <<>>, requires_human |-> FALSE]
                     ELSE [approved |-> FALSE, warnings |-> <<>>, requires_human |-> FALSE,
                           reason |-> IF rate_check.allowed THEN "Invalid recipient"
                                      ELSE "Rate limit exceeded"],
         history |-> Append(history, [type |-> "email_send", timestamp |-> logged, to |-> to])]

\* check_email_send: `now` is the clock read by check_rate_limit, `logged` the
\* clock read when the action is logged.  Returns the verdict and the history.
check_email_send(history, now, logged, to, subject, body) ==
    LET sensitive_check == Sensitive(body)
        warnings0  == IF sensitive_check.detected
                      THEN <<"Sensitive content detected">> ELSE <<>>
        human0     == sensitive_check.detected
        rate_check == check_rate_limit(history, now, "email_send")
        mass       == (\E i \in DOMAIN to : to[i] \in {",", ";"}) /\ NumRecipients(to) > 5
    IN  IF ~rate_check.allowed
        THEN [verdict |-> [approved |-> FALSE,
                           warnings |-> Append(warnings0, rate_check.reason),
                           requires_human |-> FALSE,
                           reason |-> "Rate limit exceeded"],
              history |-> history]
        ELSE IF ~IsValid(to)
        THEN [verdict |-> [approved |-> FALSE,
                           warnings |-> Append(warnings0, "Invalid email address"),
                           requires_human |-> FALSE,
                           reason |-> "Invalid recipient"],
              history |-> history]
        ELSE [verdict |-> [approved |-> TRUE,
                           warnings |-> warnings0 \o (IF mass THEN <<"Mass email">> ELSE <<>>),
                           requires_human |-> (human0 \/ mass)],
              history |-> Append(history, [type |-> "email_send", timestamp |-> logged, to |-> to])]

\* (mutant) a refused create is logged as well
check_calendar_operation_logs_always(history, now, logged, operation, args) ==
    LET rate_check == check_rate_limit(history, now, "calendar_create")
        logged_history ==
            Append(history, [type |-> "calendar_create", timestamp |-> logged])
    IN  IF operation = "create" /\ ~rate_check.allowed
        THEN [verdict |-> [approved |-> FALSE, warnings |-> <<rate_check.reason>>],
              history |-> logged_history]
        ELSE [verdict |-> [approved |-> TRUE, warnings |-> <<>>],
              history |-> logged_history]

\* (mutant) a delete is logged under a type of its own
check_calendar_operation_delete_typed(history, now, logged, operation, args) ==
    LET rate_check == check_rate_limit(history, now, "calendar_create")
    IN  IF operation = "create" /\ ~rate_check.allowed
        THEN [verdict |-> [approved |-> FALSE, warnings |-> <<rate_check.reason>>],
              history |-> history]
        ELSE [verdict |-> [approved |-> TRUE, warnings |-> <<>>],
              history |-> Append(history,
                                 [type |-> IF operation = "create" THEN "calendar_create"
                                           ELSE "calendar_delete",
                                  timestamp |-> logged])]

check_calendar_operation(history, now, logged, operation, args) ==
    LET rate_check == check_rate_limit(history, now, "calendar_create")
    IN  IF operation = "create" /\ ~rate_check.allowed
        THEN [verdict |-> [approved |-> FALSE, warnings |-> <<rate_check.reason>>],
              history |-> history]
        ELSE [verdict |-> [approved |-> TRUE, warnings |-> <<>>],
              history |-> Append(history, [type |-> "calendar_create", timestamp |-> logged])]

\* check_dangerous_action on the calls that are made, computed once
DangerousOf == [ c \in DispatchCalls |-> check_dangerous_action(c[1], c[2]) ]

Dangerous(action, args) ==
    IF <<action, args>> \in DispatchCalls THEN DangerousOf[<<action, args>>]
    ELSE check_dangerous_action(action, args)

\* (mutant) the critical list of the user_request screen lacks "credit_card"
has_critical_without_card(text_to_check) ==
    \E name \in {"ssn", "password", "api_key"} :
        /\ PatternNamed(name) # <<>>
        /\ re_search(PatternNamed(name), text_to_check)

\* the user_request screen's search for the four critical categories
has_critical(text_to_check) ==
    \E name \in {"credit_card", "ssn", "password", "api_key"} :
        /\ PatternNamed(name) # <<>>
        /\ re_search(PatternNamed(name), text_to_check)

CriticalOf == [ t \in Texts |-> has_critical(t) ]

HasCritical(text) == IF text \in Texts THEN CriticalOf[text] ELSE has_critical(text)

\* apply_guardrails on the process-wide instance: the verdict and the history
apply_guardrails(history, now, logged, action, args) ==
    IF action = S_user_request
    THEN LET text_to_check == ArgGet(args, K_input, <<>>)
             dangerous     == Dangerous(action, args)
             has_crit      == HasCritical(text_to_check)
         IN  [verdict |->
                [approved |-> ~dangerous.dangerous /\ ~has_crit,
                 reason   |-> IF dangerous.dangerous \/ has_crit
                              THEN DictGet(dangerous, "reason",
                                     "Contains sensitive data like passwords or credit cards")
                              ELSE None,
                 warnings |-> <<>>,
                 requires_human |-> FALSE],
              history |-> history]
    ELSE LET sensitive == Sensitive(StrDict(args))
             dangerous == Dangerous(action, args)
         IN  IF action = S_gmail_send_email
             THEN check_email_send(history, now, logged, ArgGet(args, K_to, <<>>),
                                   ArgGet(args, K_subject, <<>>), ArgGet(args, K_body, <<>>))
             ELSE IF action \in {S_calendar_create_event, S_calendar_delete_event}
             THEN check_calendar_operation(history, now, logged,
                     IF Contains(action, S_create) THEN "create" ELSE "delete", args)
             ELSE [verdict |->
                     [approved |-> ~dangerous.dangerous /\ ~sensitive.detected,
                      warnings |-> << IF dangerous.dangerous THEN dangerous.reason ELSE None,
                                      IF sensitive.detected THEN "Sensitive content" ELSE None >>,
                      requires_human |-> dangerous.dangerous \/ sensitive.detected],
                   history |-> history]


(***************************************************************************)
(* Guardrail calls as steps.  The clock advances in half windows, so that  *)
(* an entry is seen at the ages 0, 1800, 3600 (the window's edge), 5400 s. *)
(***************************************************************************)
Quantum == RATE_LIMITS.email_send.window \div 2

\* bounds of the three guardrail specifications
RateTicks  == 4     \* SpecRate: clock steps
RateHist   == 12    \* SpecRate: longest action history
GuardTicks == 1     \* SpecGuard: clock steps
GuardHist  == 10    \* SpecGuard: longest action history
CalTicks   == 2     \* SpecCalendar: clock steps
CalHist    == 21    \* SpecCalendar: longest action history

NoCall    == [op |-> "none", action |-> <<>>, operation |-> "", args |-> <<>>, now |-> 0]
NoVerdict == [none |-> TRUE]

GuardInit ==
    /\ action_history = <<>>
    /\ clock = 0
    /\ call = NoCall
    /\ verdict = NoVerdict
    /\ rate_blocked = FALSE

\* time passes between two calls
Tick(maxTicks) ==
    /\ clock + Quantum <= maxTicks * Quantum
    /\ clock' = clock + Quantum
    /\ call' = NoCall
    /\ verdict' = NoVerdict
    /\ UNCHANGED <<action_history, rate_blocked>>

\* a call returned r at clock time `logged`
Returned(op, action, operation, args, r, logged, maxHist) ==
    /\ Len(r.history) <= maxHist
    /\ action_history' = r.history
    /\ verdict' = r.verdict
    /\ rate_blocked' = (rate_blocked \/ (op = "check_email_send"
                                          /\ DictGet(r.verdict, "reason", None) = "Rate limit exceeded"))
    /\ clock' = logged
    /\ call' = [op |-> op, action |-> action, operation |-> operation,
                 args |-> args, now |-> clock]

\* guardrails.check_email_send(to, subject, body); the clock may advance by
\* `drift` between the two datetime.now() reads of the call
CheckEmailSend(to, subject, body, drift, maxHist, maxTicks) ==
    /\ clock + drift <= maxTicks * Quantum
    /\ Returned("check_email_send", <<>>, "", EmailArgs(to, subject, body),
                check_email_send(action_history, clock, clock + drift, to, subject, body),
                clock + drift, maxHist)

\* guardrails.check_calendar_operation(operation, args)
CheckCalendarOperation(operation, args, drift, maxHist, maxTicks) ==
    /\ clock + drift <= maxTicks * Quantum
    /\ Returned("check_calendar_operation", <<>>, operation, args,
                check_calendar_operation(action_history, clock, clock + drift, operation, args),
                clock + drift, maxHist)

\* apply_guardrails(action, args)
ApplyGuardrails(action, args, drift, maxHist, maxTicks) ==
    /\ clock + drift <= maxTicks * Quantum
    /\ Returned("apply_guardrails", action, "", args,
                apply_guardrails(action_history, clock, clock + drift, action, args),
                clock + drift, maxHist)

(***************************************************************************)
(* Initial states of the other two subsystems (their steps follow below)   *)
(***************************************************************************)
GraphInit ==
    /\ node = "idle"
    /\ messages = <<>>
    /\ requires_approval = FALSE
    /\ result = None
    /\ context_length = 0
    /\ user_input = <<>>
    /\ agent_action = None
    /\ llm_calls = 0
    /\ prompts = <<>>
    /\ executed = <<>>

NoRequest == [orch |-> "none"]

OrchInit ==
    /\ conversation_messages = <<>>
    /\ session_history = <<>>
    /\ router_history = <<>>
    /\ request = NoRequest
    /\ http_pending = <<>>
    /\ react_log = <<>>
    /\ react_results = [messages |-> 0, tool_calls |-> 0]

LegacyInit ==
    /\ graph_state = [status |-> "none"]
    /\ wf_node = "idle"
    /\ wf_visited = <<>>
    /\ wf_raised = None
    /\ wf_local_results = <<>>

(***************************************************************************)
(* SpecRate: check_email_send under the rate limit, with the clock         *)
(***************************************************************************)
WsInit ==
    /\ active_connections = <<>>
    /\ bc_pc = "idle"
    /\ bc_index = 0
    /\ bc_current = 0
    /\ bc_attempted = {}
    /\ bc_failed = {}
    /\ bc_stayers = {}
    /\ bc_raised = FALSE

NotCalled == [done |-> FALSE]

PureInit ==
    /\ pure_in = [fn |-> "none"]
    /\ pure_out = NotCalled

RouterInit ==
    /\ workspace_state = [user_input |-> <<>>]
    /\ rt_node = "idle"
    /\ rt_ran = <<>>

\* the state of every subsystem but the pure-function call
MemInit ==
    /\ mem_index = [id \in {} |-> None]
    /\ mem_call = [n |-> 0]

\* ContextManager.__init__, and no endpoint called yet
CtxInit ==
    /\ full_history = <<>>
    /\ summarized_context = <<>>
    /\ http_response = [endpoint |-> "none"]

ImpureInit ==
    /\ GuardInit /\ GraphInit /\ OrchInit /\ LegacyInit /\ WsInit /\ RouterInit
    /\ MemInit /\ CtxInit

Init == ImpureInit /\ PureInit

RateTick == Tick(RateTicks) /\ UNCHANGED <<graphVars, orchVars, laterVars>>

RateCheckEmail ==
    /\ \E to \in {R_ok, R_bad}, body \in {T_plain, T_card}, drift \in {0, Quantum} :
          CheckEmailSend(to, T_subject, body, drift, RateHist, RateTicks)
    /\ UNCHANGED <<graphVars, orchVars, laterVars>>

RateNext == RateTick \/ RateCheckEmail

SpecRate == Init /\ [][RateNext]_vars

(***************************************************************************)
(* SpecGuard: the content checks of check_email_send and apply_guardrails  *)
(***************************************************************************)
GuardTick == Tick(GuardTicks) /\ UNCHANGED <<graphVars, orchVars, laterVars>>

GuardCheckEmail ==
    /\ \E to \in Recipients, body \in Texts :
          CheckEmailSend(to, T_subject, body, 0, GuardHist, GuardTicks)
    /\ UNCHANGED <<graphVars, orchVars, laterVars>>

GuardApply ==
    /\ \E c \in UserRequests \cup SendRequests \cup OtherRequests :
          ApplyGuardrails(c[1], c[2], 0, GuardHist, GuardTicks)
    /\ UNCHANGED <<graphVars, orchVars, laterVars>>

GuardNext == GuardTick \/ GuardCheckEmail \/ GuardApply

SpecGuard == Init /\ [][GuardNext]_vars

(***************************************************************************)
(* SpecCalendar: check_calendar_operation under the calendar-create limit  *)
(***************************************************************************)
CalTick == Tick(CalTicks) /\ UNCHANGED <<graphVars, orchVars, laterVars>>

CalCheck ==
    /\ \E operation \in {"create", "delete"}, drift \in {0, Quantum} :
          CheckCalendarOperation(operation, << <<K_summary, T_subject>> >>, drift,
                                 CalHist, CalTicks)
    /\ UNCHANGED <<graphVars, orchVars, laterVars>>

CalApply ==
    /\ \E c \in CalendarRequests : ApplyGuardrails(c[1], c[2], 0, CalHist, CalTicks)
    /\ UNCHANGED <<graphVars, orchVars, laterVars>>

CalNext == CalTick \/ CalCheck \/ CalApply

SpecCalendar == Init /\ [][CalNext]_vars

\* the email_send entries of h that are newer than 3,600 s at time `now`
FreshSends(h, now) ==
    { i \in DOMAIN h : h[i].type = "email_send" /\ h[i].timestamp > now - 3600 }

\* the step is a check_email_send call with a valid single recipient
ValidSendCheck ==
    /\ call'.op = "check_email_send"
    /\ IsValid(ArgGet(call'.args, K_to, <<>>))
    /\ NumRecipients(ArgGet(call'.args, K_to, <<>>)) = 1

\* no half-open window of 3,600 s ending at a logged send holds more than 10 sends
WindowBound ==
    \A i \in DOMAIN action_history :
        action_history[i].type = "email_send" =>
            Cardinality({ j \in DOMAIN action_history :
                            /\ action_history[j].type = "email_send"
                            /\ action_history[j].timestamp > action_history[i].timestamp - 3600
                            /\ action_history[j].timestamp <= action_history[i].timestamp }) <= 10

\* C2: a check_email_send call with a valid single recipient is approved exactly
\* when fewer than 10 email_send entries are newer than 3,600 s at the time of
\* the check (so 10 checks in one window pass and the 11th is refused); a
\* refusal has approved = FALSE and the reason "Rate limit exceeded"; and no
\* window of 3,600 s (open at its old end) ever holds more than 10 logged sends.
C2_RateLimit ==
    /\ [][ ValidSendCheck =>
            /\ verdict'.approved = (Cardinality(FreshSends(action_history, call'.now)) < 10)
            /\ ~verdict'.approved =>
                   /\ verdict'.reason = "Rate limit exceeded"
                   /\ action_history' = action_history
            /\ verdict'.approved => Len(action_history') = Len(action_history) + 1 ]_vars
    /\ []WindowBound

\* C2 witness: an 11th check in a window that already holds 10 sends was refused
C2_Witness ==
    /\ call.op = "check_email_send"
    /\ ArgGet(call.args, K_to, <<>>) = R_ok
    /\ ~verdict.approved
    /\ verdict.reason = "Rate limit exceeded"
    /\ Cardinality(FreshSends(action_history, call.now)) = 10

\* C25: a check_email_send call that returns approved = FALSE, for the rate
\* limit or for an invalid recipient, leaves the action history as it was, so
\* the entries check_rate_limit will count at any later time are the same as
\* if the call had not been made.
C25_RefusalNotLogged ==
    [][ (call'.op = "check_email_send" /\ ~verdict'.approved) =>
            /\ verdict'.reason \in {"Rate limit exceeded", "Invalid recipient"}
            /\ action_history' = action_history
            /\ \A t \in {clock', clock' + Quantum, clock' + 3600} :
                   check_rate_limit(action_history', t, "email_send")
                       = check_rate_limit(action_history, t, "email_send") ]_vars

\* C25 witness: a check was refused for its recipient while the history held
\* sends that count against the limit
C25_Witness ==
    /\ call.op = "check_email_send"
    /\ ~verdict.approved
    /\ verdict.reason = "Invalid recipient"
    /\ Cardinality(FreshSends(action_history, call.now)) >= 2

\* C3: once a check has been refused by the rate limit, a later check with a
\* valid recipient made when fewer than 10 email_send entries are newer than
\* 3,600 s (an entry aged exactly 3,600 s does not count) is approved, and the
\* history was not reset: the new entry is appended to all the old ones.
C3_RecoversAfterWindow ==
    [][ (rate_blocked /\ ValidSendCheck
            /\ Cardinality(FreshSends(action_history, call'.now)) < 10) =>
        /\ verdict'.approved
        /\ Len(action_history') = Len(action_history) + 1
        /\ SubSeq(action_history', 1, Len(action_history)) = action_history ]_vars

\* C3 witness: after a refusal, a check is approved although 10 or more earlier
\* sends are at most 3,600 s old, because some are exactly 3,600 s old
C3_Witness ==
    /\ rate_blocked
    /\ call.op = "check_email_send"
    /\ verdict.approved
    /\ \E i \in DOMAIN action_history : call.now - action_history[i].timestamp = 3600
    /\ Cardinality({ i \in 1..(Len(action_history) - 1) :
                        call.now - action_history[i].timestamp <= 3600 }) >= 10

(***************************************************************************)
(* Content checks (SpecGuard)                                              *)
(***************************************************************************)
\* the sample texts that hold a credit-card-shaped number, and those that
\* match any of the five sensitive patterns
CardTexts      == {T_card, T_trunc}
SensitiveTexts == {T_card, T_trunc, T_ssn, T_password, T_api_key, T_mail}

\* the call c is an email-send check, made directly or through the dispatcher
IsSendCheck(c) ==
    \/ c.op = "check_email_send"
    \/ c.op = "apply_guardrails" /\ c.action = S_gmail_send_email

IsUserRequest(c) == c.op = "apply_guardrails" /\ c.action = S_user_request

ToOf(c)   == ArgGet(c.args, K_to, <<>>)
BodyOf(c) == ArgGet(c.args, K_body, <<>>)

\* at the call made by this step the email rate limit is not reached
LimitNotReached == Cardinality(FreshSends(action_history, call'.now)) < 10

\* C5: a text with a credit-card-shaped number is rejected by the user_request
\* screen; as the body of an email-send check with a valid recipient and the
\* rate limit not reached it is approved, with a warning and requires_human.
C5_CardPaths ==
    [][ /\ (IsUserRequest(call') /\ ArgGet(call'.args, K_input, <<>>) \in CardTexts)
              => ~verdict'.approved
        /\ (IsSendCheck(call') /\ BodyOf(call') \in CardTexts
                /\ IsValid(ToOf(call')) /\ LimitNotReached)
              => /\ verdict'.approved
                 /\ verdict'.requires_human
                 /\ Len(verdict'.warnings) > 0 ]_vars

\* C5 witness: an email-send check approved a card-number body with a warning
\* and requires_human, in a state where the user_request screen rejects it
C5_Witness ==
    /\ IsSendCheck(call)
    /\ BodyOf(call) = T_card
    /\ verdict.approved /\ verdict.requires_human /\ Len(verdict.warnings) > 0
    /\ ~apply_guardrails(action_history, clock, clock, S_user_request,
                         << <<K_input, T_card>> >>).verdict.approved

\* C6 (as claimed): every verdict of apply_guardrails with approved = FALSE
\* carries a reason that is not None and a warnings list.
C6_RejectionHasReason ==
    (call.op = "apply_guardrails" /\ ~verdict.approved) =>
        /\ "reason" \in DOMAIN verdict
        /\ verdict.reason # None
        /\ "warnings" \in DOMAIN verdict

\* C7 (as claimed): every email-send check whose body matches a sensitive
\* pattern returns requires_human = TRUE, and the hit alone does not block.
C7_SensitiveAlwaysHuman ==
    [][ (IsSendCheck(call') /\ BodyOf(call') \in SensitiveTexts) =>
            /\ verdict'.requires_human
            /\ (IsValid(ToOf(call')) /\ LimitNotReached) => verdict'.approved ]_vars

\* C7 (amended): an email-send check whose body matches a sensitive pattern is
\* approved exactly when the rate limit is not reached and the recipient is
\* valid (the hit alone does not block), and it returns requires_human = TRUE
\* exactly when it is approved: a blocked check returns requires_human = FALSE.
C7_SensitiveHumanWhenApproved ==
    [][ (IsSendCheck(call') /\ BodyOf(call') \in SensitiveTexts) =>
            /\ verdict'.approved = (IsValid(ToOf(call')) /\ LimitNotReached)
            /\ verdict'.requires_human = verdict'.approved ]_vars

\* C7 witness: a check with a sensitive body was approved with requires_human
C7_Witness ==
    /\ IsSendCheck(call)
    /\ BodyOf(call) = T_password
    /\ verdict.approved
    /\ verdict.requires_human

\* C8 (as claimed): an email-send check whose 'to' lists more than 5 addresses,
\* made while the rate limit is not reached, returns requires_human = TRUE.
C8_MassEmailHuman ==
    [][ (IsSendCheck(call') /\ NumRecipients(ToOf(call')) > 5 /\ LimitNotReached)
            => verdict'.requires_human ]_vars

(***************************************************************************)
(* Calendar checks (SpecCalendar)                                          *)
(***************************************************************************)
IsCalendarCheck(c) ==
    \/ c.op = "check_calendar_operation"
    \/ c.op = "apply_guardrails"
         /\ c.action \in {S_calendar_create_event, S_calendar_delete_event}

OperationOf(c) ==
    IF c.op = "check_calendar_operation" THEN c.operation
    ELSE IF c.action = S_calendar_create_event THEN "create" ELSE "delete"

FreshCreates(h, now) ==
    { i \in DOMAIN h : h[i].type = "calendar_create" /\ h[i].timestamp > now - 3600 }

\* C9 (as claimed): every call of check_calendar_operation appends exactly one
\* entry to the action history, approved or not.
C9_AlwaysLogs ==
    [][ IsCalendarCheck(call') => Len(action_history') = Len(action_history) + 1 ]_vars

\* C9 (amended): a call of check_calendar_operation is refused exactly when it
\* is a create and 20 or more calendar_create entries are newer than 3,600 s;
\* an approved call (every delete included) appends exactly one entry, of type
\* calendar_create, and a refused create leaves the history unchanged.
C9_LogsWhenApproved ==
    [][ IsCalendarCheck(call') =>
            /\ verdict'.approved =
                  ~(OperationOf(call') = "create"
                      /\ Cardinality(FreshCreates(action_history, call'.now)) >= 20)
            /\ verdict'.approved =>
                  action_history' = Append(action_history,
                                       [type |-> "calendar_create", timestamp |-> clock'])
            /\ ~verdict'.approved => action_history' = action_history ]_vars

\* C9 witness: a create was refused by the calendar-create limit
C9_Witness ==
    /\ IsCalendarCheck(call)
    /\ OperationOf(call) = "create"
    /\ ~verdict.approved
    /\ Cardinality(FreshCreates(action_history, call.now)) >= 20

\* C26: a delete check is never refused and appends one entry of type
\* calendar_create; a create check is refused exactly when 20 or more
\* calendar_create entries, whichever operation logged them, are newer than
\* 3,600 s; so whenever the history holds 20 such entries a create check made
\* now is refused, however many of them deletes logged.
C26_DeletesCountAsCreates ==
    /\ [][ IsCalendarCheck(call') =>
              IF OperationOf(call') = "delete"
              THEN /\ verdict'.approved
                   /\ action_history' = Append(action_history,
                                            [type |-> "calendar_create", timestamp |-> clock'])
              ELSE verdict'.approved
                       = (Cardinality(FreshCreates(action_history, call'.now)) < 20) ]_vars
    /\ [](Cardinality(FreshCreates(action_history, clock)) >= 20 =>
              ~check_calendar_operation(action_history, clock, clock,
                                        "create", <<>>).verdict.approved)

\* C26 witness: the 20th entry of the window was logged by a delete check, so
\* at most 19 events were created and the next create check is refused
C26_Witness ==
    /\ IsCalendarCheck(call)
    /\ OperationOf(call) = "delete"
    /\ verdict.approved
    /\ Len(action_history) = 20
    /\ Cardinality(FreshCreates(action_history, clock)) = 20

(***************************************************************************)
(* email_agent_modern.py: the tool-calling email agent graph               *)
(***************************************************************************)
\* A message is [type, content, more, tool_calls]: content is the text spelled
\* out, more the number of further characters of a text supplied from outside
\* (tool output) that are not spelled out; len(str(m.content)) is their sum.
HumanMessage(content) ==
    [type |-> "human", content |-> content, more |-> 0, tool_calls |-> <<>>]
AIMessage(content, tool_calls) ==
    [type |-> "ai", content |-> content, more |-> 0, tool_calls |-> tool_calls]
ToolMessage(name, more) ==
    [type |-> "tool", content |-> <<>>, more |-> more, tool_calls |-> <<>>, name |-> name]

ContentLen(m) == Len(m.content) + m.more

RECURSIVE SumContentLen(_)
SumContentLen(ms) ==
    IF ms = <<>> THEN 0 ELSE ContentLen(Head(ms)) + SumContentLen(Tail(ms))

S_gmail_read_recent == <<"g","m","a","i","l","_","r","e","a","d","_","r","e","c","e","n","t">>

\* the three entry points of EmailAgent and the user_input each one formats
TriagePrefix == <<"P","l","e","a","s","e"," ","t","r","i","a","g","e"," ","m","y"," ","l","a","s","t"," ">>
TriageSuffix == <<" ","e","m","a","i","l","s"," ","a","n","d"," ","s","u","g","g","e","s","t"," ","w","h","a","t"," ","n","e","e","d","s"," ","i","m","m","e","d","i","a","t","e"," ","a","t","t","e","n","t","i","o","n",".">>
SendPrefix   == <<"S","e","n","d"," ","a","n"," ","e","m","a","i","l"," ","t","o"," ">>
SendSubject  == <<" ","w","i","t","h"," ","s","u","b","j","e","c","t"," ","'">>
SendBody     == <<"'"," ","a","n","d"," ","b","o","d","y",":"," ">>
SearchPrefix == <<"S","e","a","r","c","h"," ","m","y"," ","e","m","a","i","l","s"," ","f","o","r",":"," ">>
T_ten        == <<"1","0">>
T_query      == <<"i","n","v","o","i","c","e">>

triage_emails(max_emails) ==
    [user_input |-> TriagePrefix \o max_emails \o TriageSuffix, action |-> "triage"]
send_email(to, subject, body) ==
    [user_input |-> SendPrefix \o to \o SendSubject \o subject \o SendBody \o body,
     action |-> "send"]
search_emails(query) ==
    [user_input |-> SearchPrefix \o query, action |-> "search"]

EntryCalls ==
    { triage_emails(T_ten), send_email(R_ok, T_subject, T_plain), search_emails(T_query) }

\* what the model may answer: text only, or tool calls (its content is then empty)
T_answer == <<"Y","o","u"," ","h","a","v","e"," ","2"," ","u","n","r","e","a","d"," ","e","m","a","i","l","s",".">>
ReadCall == [name |-> S_gmail_read_recent, args |-> <<>>]
SendCall(body) == [name |-> S_gmail_send_email, args |-> EmailArgs(R_ok, T_subject, body)]

LLMResponses ==
    { AIMessage(T_answer, <<>>),
      AIMessage(<<>>, <<ReadCall>>),
      AIMessage(<<>>, <<SendCall(T_plain)>>),
      AIMessage(<<>>, <<SendCall(T_password)>>),
      AIMessage(<<>>, <<ReadCall, SendCall(T_plain)>>) }

IsSend(tool_call) == tool_call.name = S_gmail_send_email
HasSend(tool_calls) == \E i \in DOMAIN tool_calls : IsSend(tool_calls[i])

\* guardrails_node's context limit, and the sizes a tool's output may have
ContextLimit == 10000
ToolOutputSizes == {200, ContextLimit + 1}

\* bound on the LLM calls of one run
MaxLLMCalls == 3

\* (mutant) tool calls are looked at before the approval flag
should_continue_tools_first(msgs, approval, res) ==
    IF msgs = <<>> THEN "end"
    ELSE IF msgs[Len(msgs)].tool_calls # <<>> THEN "tools"
    ELSE IF approval THEN "approval"
    ELSE IF res # "guardrails_checked" THEN "guardrails"
    ELSE "end"

should_continue(msgs, approval, res) ==
    IF msgs = <<>> THEN "end"
    ELSE IF approval THEN "approval"
    ELSE IF msgs[Len(msgs)].tool_calls # <<>> THEN "tools"
    ELSE IF res # "guardrails_checked" THEN "guardrails"
    ELSE "end"

graphGhost == <<llm_calls, prompts, executed>>

\* EmailAgent.triage_emails / send_email / search_emails: graph.invoke(initial_state)
StartRun ==
    /\ node \in {"idle", "end", "failed"}
    /\ \E entry \in EntryCalls :
          /\ user_input' = entry.user_input
          /\ agent_action' = entry.action
    /\ messages' = <<>>
    /\ result' = None
    /\ requires_approval' = FALSE
    /\ context_length' = 0
    /\ node' = "agent"
    /\ llm_calls' = 0
    /\ prompts' = <<>>
    /\ executed' = <<>>
    /\ UNCHANGED <<guardVars, orchVars, laterVars>>

\* email_agent_node, then the conditional edge out of it
AgentNode ==
    /\ node = "agent"
    /\ llm_calls < MaxLLMCalls
    /\ LET with_user ==
               IF messages = <<>> \/ messages[Len(messages)].type # "human"
               THEN Append(messages, HumanMessage(user_input))
               ELSE messages
       IN  /\ llm_calls' = llm_calls + 1
           /\ \/ \* llm_with_tools.invoke raises: graph.invoke propagates it
                 /\ messages' = with_user
                 /\ node' = "failed"
                 /\ UNCHANGED <<requires_approval, context_length>>
              \/ \E response \in LLMResponses :
                    LET new_messages == Append(with_user, response)
                        new_approval == IF HasSend(response.tool_calls)
                                        THEN TRUE ELSE requires_approval
                    IN  /\ messages' = new_messages
                        /\ context_length' =
                               SumContentLen(with_user) + ContentLen(response)
                        /\ requires_approval' = new_approval
                        /\ node' = should_continue(new_messages, new_approval, result)
    /\ UNCHANGED <<result, user_input, agent_action, prompts, executed>>
    /\ UNCHANGED <<guardVars, orchVars, laterVars>>

\* len(str(tool_results)): the repr of {"messages": [ToolMessage(...), ...]}
DictFrame        == <<"{","'","m","e","s","s","a","g","e","s","'",":"," ","[","]","}">>
ToolMessageFrame == <<"T","o","o","l","M","e","s","s","a","g","e","(","c","o","n","t","e","n","t","=","'","'",","," ","n","a","m","e","=","'","'",","," ","t","o","o","l","_","c","a","l","l","_","i","d","=","'","'",")">>
ListSeparator    == <<","," ">>

RECURSIVE SumReprLen(_)
SumReprLen(ms) ==
    IF ms = <<>> THEN 0
    ELSE Len(ToolMessageFrame) + ContentLen(Head(ms)) + Len(Head(ms).name)
           + (IF Tail(ms) = <<>> THEN 0 ELSE Len(ListSeparator))
           + SumReprLen(Tail(ms))

ReprLen(tool_messages) == Len(DictFrame) + SumReprLen(tool_messages)

\* tool_execution_node, then the edge tools -> agent
ToolsNode ==
    /\ node = "tools"
    /\ LET last_message == messages[Len(messages)]
           calls == last_message.tool_calls
       IN  IF calls = <<>>
           THEN UNCHANGED <<messages, context_length, executed>>
           ELSE \E sizes \in [DOMAIN calls -> ToolOutputSizes] :
                   LET tool_messages ==
                           [i \in DOMAIN calls |-> ToolMessage(calls[i].name, sizes[i])]
                   IN  /\ messages' = messages \o tool_messages
                       /\ context_length' = context_length + ReprLen(tool_messages)
                       /\ executed' = executed \o calls
    /\ node' = "agent"
    /\ UNCHANGED <<requires_approval, result, user_input, agent_action, llm_calls, prompts>>
    /\ UNCHANGED <<guardVars, orchVars, laterVars>>

\* the gmail_send_email calls in the order human_approval_node meets them:
\* messages newest first, the calls of one message in their own order
RECURSIVE SendsOf(_)
SendsOf(tool_calls) ==
    IF tool_calls = <<>> THEN <<>>
    ELSE (IF IsSend(Head(tool_calls)) THEN <<Head(tool_calls)>> ELSE <<>>)
           \o SendsOf(Tail(tool_calls))

RECURSIVE PendingSends(_)
PendingSends(msgs) ==
    IF msgs = <<>> THEN <<>>
    ELSE SendsOf(msgs[Len(msgs)].tool_calls) \o PendingSends(SubSeq(msgs, 1, Len(msgs) - 1))

CancelNotice == <<"X"," ","E","m","a","i","l"," ","s","e","n","d","i","n","g"," ","c","a","n","c","e","l","l","e","d"," ","b","y"," ","u","s","e","r",".">>

\* human_approval_node, then the edge approval -> agent.  `refused` is the
\* position of the first prompt not answered 'yes' (0: all were answered 'yes').
ApprovalNode ==
    /\ node = "approval"
    /\ LET pending == PendingSends(messages)
       IN  \E refused \in 0..Len(pending) :
              IF refused = 0
              THEN /\ prompts' = prompts \o
                          [i \in DOMAIN pending |-> [tool_call |-> pending[i], approval |-> "yes"]]
                   /\ result' = "approved"
                   /\ UNCHANGED messages
              ELSE /\ prompts' = prompts \o
                          [i \in 1..refused |->
                              [tool_call |-> pending[i],
                               approval |-> IF i < refused THEN "yes" ELSE "no"]]
                   /\ messages' = Append(messages, AIMessage(CancelNotice, <<>>))
                   /\ result' = "cancelled"
    /\ requires_approval' = FALSE
    /\ node' = "agent"
    /\ UNCHANGED <<context_length, user_input, agent_action, llm_calls, executed>>
    /\ UNCHANGED <<guardVars, orchVars, laterVars>>

sensitive_keywords ==
    << <<"p","a","s","s","w","o","r","d">>,
       <<"c","r","e","d","i","t"," ","c","a","r","d">>,
       <<"s","s","n">>,
       <<"s","o","c","i","a","l"," ","s","e","c","u","r","i","t","y">> >>

SensitiveNotice == <<"!","_"," ","E","m","a","i","l"," ","c","o","n","t","a","i","n","s"," ","p","o","t","e","n","t","i","a","l","l","y"," ","s","e","n","s","i","t","i","v","e"," ","i","n","f","o","r","m","a","t","i","o","n","."," ","P","l","e","a","s","e"," ","r","e","v","i","e","w"," ","c","a","r","e","f","u","l","l","y",".">>

HasSensitiveKeyword(tool_call) ==
    LET body == Lower(ArgGet(tool_call.args, K_body, <<>>))
    IN  \E k \in DOMAIN sensitive_keywords : Contains(body, sensitive_keywords[k])

\* guardrails_node, then the edge guardrails -> END
GuardrailsNode ==
    /\ node = "guardrails"
    /\ IF context_length > ContextLimit
       THEN /\ result' = "summarization_needed"
            /\ UNCHANGED messages
       ELSE LET flagged == SelectSeq(PendingSends(messages), HasSensitiveKeyword)
            IN  /\ messages' = messages \o
                       [i \in DOMAIN flagged |-> AIMessage(SensitiveNotice, <<>>)]
                /\ UNCHANGED result
    /\ node' = "end"
    /\ UNCHANGED <<requires_approval, context_length, user_input, agent_action, graphGhost>>
    /\ UNCHANGED <<guardVars, orchVars, laterVars>>

GraphNext ==
    \/ StartRun
    \/ AgentNode
    \/ ToolsNode
    \/ ApprovalNode
    \/ GuardrailsNode

SpecEmailGraph == Init /\ [][GraphNext]_vars

\* C1: every gmail_send_email call the tools node has executed was presented by
\* the approval node earlier in the run and answered 'yes' by the operator.
C1_SendNeedsApproval ==
    \A i \in DOMAIN executed :
        IsSend(executed[i]) =>
            \E j \in DOMAIN prompts :
                /\ prompts[j].tool_call = executed[i]
                /\ prompts[j].approval = "yes"

\* C1 witness: the tools node has executed a tool call in a run in which the
\* approval node presented a send and the operator answered 'yes'
C1_Witness ==
    /\ executed # <<>>
    /\ \E j \in DOMAIN prompts : prompts[j].approval = "yes" /\ IsSend(prompts[j].tool_call)

C10_RejectionHalts ==
    /\ [][ (node = "approval" /\ result' = "cancelled") =>
               messages' = Append(messages, AIMessage(CancelNotice, <<>>)) ]_vars
    /\ [][ (result = "cancelled" /\ node \in {"agent", "tools", "approval", "guardrails"}) =>
               /\ llm_calls' = llm_calls
               /\ \A i \in DOMAIN executed' : ~IsSend(executed'[i]) ]_vars

(***************************************************************************)
(* process_request of the two orchestrators                                *)
(*   orchestrator_modern.py  WorkspaceOrchestrator (router)                *)
(*   orchestrator_react.py   WorkspaceAssistant    (ReAct, served by main) *)
(* graph.invoke is the LLM and tool work of a request: it returns the      *)
(* messages it produced or raises.  `request` records, for the last        *)
(* process_request, the calls it made in order and what it returned.       *)
(***************************************************************************)
\* bound on the requests one orchestrator object serves
MaxRequests == 2

OrchInputs == {T_plain, T_card}

T_bracket == <<"[","t","o","o","l","]">>

\* what a run of the graph may leave behind the input messages
GraphOutputs ==
    { << [type |-> "ai", content |-> T_answer] >>,
      << [type |-> "ai", content |-> <<>>] >>,
      << [type |-> "ai", content |-> T_answer], [type |-> "ai", content |-> T_bracket] >>,
      <<>> }

StartsWithBracket(content) == content # <<>> /\ content[1] = "["

\* `for msg in reversed(messages)`: the index of the last message whose content
\* is not empty and does not start with '[', 0 when there is none
RECURSIVE LastUsableIndex(_)
LastUsableIndex(msgs) ==
    IF msgs = <<>> THEN 0
    ELSE LET msg == msgs[Len(msgs)]
         IN  IF msg.content # <<>> /\ ~StartsWithBracket(msg.content)
             THEN Len(msgs)
             ELSE LastUsableIndex(SubSeq(msgs, 1, Len(msgs) - 1))

LastUsableContent(msgs) ==
    IF LastUsableIndex(msgs) = 0 THEN <<>> ELSE msgs[LastUsableIndex(msgs)].content

NoResponseText == <<"I"," ","p","r","o","c","e","s","s","e","d"," ","y","o","u","r"," ","r","e","q","u","e","s","t",","," ","b","u","t"," ","c","o","u","l","d","n","'","t"," ","g","e","n","e","r","a","t","e"," ","a"," ","r","e","s","p","o","n","s","e",".">>
ProcessedText  == <<"R","e","q","u","e","s","t"," ","p","r","o","c","e","s","s","e","d"," ","s","u","c","c","e","s","s","f","u","l","l","y">>

\* ("user", text) / ("assistant", text) pairs as the messages the graph sees
AsMessages(conversation) ==
    [ i \in DOMAIN conversation |->
        IF conversation[i][1] = "user"
        THEN HumanMessage(conversation[i][2])
        ELSE AIMessage(conversation[i][2], <<>>) ]

GuardrailCall(raw_input, check) ==
    [name |-> "apply_guardrails", action |-> S_user_request,
     input |-> raw_input, approved |-> check.approved]
GraphCall == [name |-> "graph.invoke"]

\* WorkspaceOrchestrator.process_request
RouterProcessRequest ==
    /\ Len(router_history) < MaxRequests
    /\ \E raw_input \in OrchInputs :
          LET guardrail_check ==
                  apply_guardrails(action_history, clock, clock, S_user_request,
                                   << <<K_input, raw_input>> >>).verdict
          IN  IF ~guardrail_check.approved
              THEN /\ request' = [orch |-> "router", input |-> raw_input,
                                  calls |-> <<GuardrailCall(raw_input, guardrail_check)>>,
                                  response |-> [kind |-> "blocked",
                                                reason |-> guardrail_check.reason]]
                   /\ UNCHANGED router_history
              ELSE \/ \E out \in GraphOutputs :
                        /\ router_history' =
                               Append(router_history,
                                      [input |-> raw_input, result |-> out, timestamp |-> clock])
                        /\ request' = [orch |-> "router", input |-> raw_input,
                                       calls |-> <<GuardrailCall(raw_input, guardrail_check),
                                                   GraphCall>>,
                                       response |->
                                          [kind |-> "answer",
                                           text |-> IF out # <<>> THEN out[Len(out)].content
                                                    ELSE ProcessedText]]
                 \/ \* graph.invoke raises
                    /\ request' = [orch |-> "router", input |-> raw_input,
                                   calls |-> <<GuardrailCall(raw_input, guardrail_check),
                                               GraphCall>>,
                                   response |-> [kind |-> "error"]]
                    /\ UNCHANGED router_history
    /\ UNCHANGED <<conversation_messages, session_history,
                   http_pending, react_log, react_results>>
    /\ UNCHANGED <<guardVars, graphVars, laterVars>>

\* bounds on the tool rounds of one ReAct run and on the suspended chat requests
MaxToolRounds == 1
MaxPending == 2

T_tool == <<"C","u","r","r","e","n","t"," ","t","i","m","e",":"," ","2","0",":","0","0">>
TimeCall == [name |-> "get_current_time", args |-> <<>>]
ToolResult(content) ==
    [type |-> "tool", content |-> content, more |-> 0, tool_calls |-> <<>>,
     name |-> "get_current_time"]

\* n rounds agent -> tools: an AI message carrying a tool call, then its result
RECURSIVE ToolRounds(_)
ToolRounds(n) ==
    IF n = 0 THEN <<>>
    ELSE <<AIMessage(<<>>, <<TimeCall>>), ToolResult(T_tool)>> \o ToolRounds(n - 1)

\* what a run of the ReAct graph appends to its input messages: tool rounds,
\* then the LLM's message without tool calls that ends the loop
FinalTexts == {T_answer, <<>>, T_bracket}
ReactOutputs ==
    { ToolRounds(n) \o <<AIMessage(final, <<>>)>> : n \in 0..MaxToolRounds, final \in FinalTexts }

ErrorPrefix == <<"S","o","r","r","y",","," ","I"," ","e","n","c","o","u","n","t","e","r","e","d"," ","a","n"," ","e","r","r","o","r",":"," ">>
ReactErrors == { <<"t","i","m","e","o","u","t">> }

\* `hasattr(m, 'tool_calls') and m.tool_calls`
HasToolCalls(m) == "tool_calls" \in DOMAIN m /\ m.tool_calls # <<>>
CountToolCalls(msgs) == Cardinality({ i \in DOMAIN msgs : HasToolCalls(msgs[i]) })

\* (mutant) the except branch returns the error text without storing it
error_turn_dropped(with_user, error_msg) == with_user

\* the except branch of process_request (orchestrator_react.py:214-220)
error_turn(with_user, error_msg) == Append(with_user, <<"assistant", error_msg>>)

\* WorkspaceAssistant.process_request(raw_input), entered with the transcript
\* `conversation`; `log` is the call log the transcript is compared with and
\* `outputs` the results the graph may return
process_request(conversation, log, raw_input, outputs) ==
    LET with_user == Append(conversation, <<"user", raw_input>>)
        sent == AsMessages(with_user)
    IN  \/ \E out \in outputs :
              LET result_messages == sent \o out
                  picked == LastUsableIndex(result_messages)
                  assistant_response ==
                      IF LastUsableContent(result_messages) = <<>>
                      THEN NoResponseText ELSE LastUsableContent(result_messages)
              IN  /\ conversation_messages' =
                         Append(with_user, <<"assistant", assistant_response>>)
                  /\ session_history' =
                         Append(session_history,
                                [input |-> raw_input, output |-> assistant_response,
                                 timestamp |-> clock])
                  /\ request' = [orch |-> "react", input |-> raw_input,
                                 calls |-> <<GraphCall>>, sent |-> sent,
                                 result |-> result_messages,
                                 response |->
                                    [kind |-> "answer", text |-> assistant_response,
                                     from |-> IF picked = 0 THEN "none"
                                              ELSE result_messages[picked].type,
                                     picked |-> picked]]
                  /\ react_log' = Append(log, [input |-> raw_input,
                                               reply |-> assistant_response])
                  /\ react_results' =
                         [messages   |-> react_results.messages + Len(result_messages),
                          tool_calls |-> react_results.tool_calls
                                            + CountToolCalls(result_messages)]
        \/ \* graph.invoke raises: the error text is stored as the reply
           \E e \in ReactErrors :
              LET error_msg == ErrorPrefix \o e
              IN  /\ conversation_messages' = error_turn(with_user, error_msg)
                  /\ UNCHANGED <<session_history, react_results>>
                  /\ request' = [orch |-> "react", input |-> raw_input,
                                 calls |-> <<GraphCall>>, sent |-> sent,
                                 response |-> [kind |-> "error", text |-> error_msg]]
                  /\ react_log' = Append(log, [input |-> raw_input, reply |-> error_msg])

ReactRoom ==
    /\ Len(conversation_messages) < 2 * MaxRequests
    /\ Len(session_history) < MaxRequests

\* a direct call of WorkspaceAssistant.process_request
ReactProcessRequest ==
    /\ ReactRoom
    /\ \E raw_input \in OrchInputs :
          process_request(conversation_messages, react_log, raw_input, ReactOutputs)
    /\ UNCHANGED <<router_history, http_pending>>
    /\ UNCHANGED <<guardVars, graphVars, laterVars>>

\* WorkspaceAssistant.clear_conversation
ClearConversation ==
    /\ conversation_messages # <<>>
    /\ conversation_messages' = <<>>
    /\ react_log' = <<>>
    /\ request' = NoRequest
    /\ UNCHANGED <<session_history, router_history, http_pending, react_results>>
    /\ UNCHANGED <<guardVars, graphVars, laterVars>>

\* WorkspaceAssistant.get_session_stats
get_session_stats(history) ==
    LET MessagesOf(r) == DictGet(DictGet(r, "result", EmptyDict), "messages", <<>>)
        RECURSIVE Sum(_, _)
        Sum(f(_), i) == IF i = 0 THEN 0 ELSE f(history[i]) + Sum(f, i - 1)
        NumMessages(r) == Len(MessagesOf(r))
        NumToolCalls(r) == CountToolCalls(MessagesOf(r))
    IN  [total_requests |-> Len(history),
         agents_used    |-> 1,
         total_messages |-> Sum(NumMessages, Len(history)),
         tool_calls     |-> Sum(NumToolCalls, Len(history))]

(***************************************************************************)
(* main.py: the HTTP endpoints that call the ReAct orchestrator.  Every    *)
(* endpoint is a coroutine on one event loop and process_request is a      *)
(* plain (blocking) call, so a handler runs without interruption between   *)
(* two of its awaits.                                                      *)
(***************************************************************************)
\* the results the graph returns in the runs of the endpoints
ChatOutputs == { <<AIMessage(T_answer, <<>>)>> }

T_triage_prompt == <<"T","r","i","a","g","e"," ","m","y"," ","r","e","c","e","n","t"," ","e","m","a","i","l","s"," ","a","n","d"," ","t","e","l","l"," ","m","e"," ","w","h","a","t"," ","n","e","e","d","s"," ","i","m","m","e","d","i","a","t","e"," ","a","t","t","e","n","t","i","o","n">>
T_brief_prompt  == <<"G","i","v","e"," ","m","e"," ","a"," ","c","o","m","p","r","e","h","e","n","s","i","v","e"," ","d","a","i","l","y"," ","b","r","i","e","f","i","n","g",":"," ","c","h","e","c","k"," ","m","y"," ","e","m","a","i","l","s"," ","f","o","r"," ","u","r","g","e","n","t"," ","i","t","e","m","s",","," ","s","h","o","w"," ","m","y"," ","c","a","l","e","n","d","a","r"," ","f","o","r"," ","t","o","d","a","y",","," ","a","n","d"," ","s","u","g","g","e","s","t"," ","p","r","i","o","r","i","t","i","e","s">>

\* ai_chat up to `body = await request.json()`: the handler is suspended
AiChatReceive ==
    /\ Len(http_pending) < MaxPending
    /\ \E user_message \in OrchInputs : http_pending' = Append(http_pending, user_message)
    /\ UNCHANGED <<conversation_messages, session_history, router_history, request,
                   react_log, react_results>>
    /\ UNCHANGED <<guardVars, graphVars, laterVars>>

\* ai_chat after the await: process_request, then get_session_stats.  The
\* suspended handlers resume in any order.
AiChat ==
    /\ ReactRoom
    /\ \E i \in DOMAIN http_pending :
          /\ process_request(conversation_messages, react_log, http_pending[i], ChatOutputs)
          /\ http_pending' = SubSeq(http_pending, 1, i - 1)
                                 \o SubSeq(http_pending, i + 1, Len(http_pending))
    /\ UNCHANGED router_history
    /\ UNCHANGED <<guardVars, graphVars, laterVars>>

\* ai_triage: clear_conversation, then process_request
AiTriage ==
    /\ Len(session_history) < MaxRequests
    /\ process_request(<<>>, <<>>, T_triage_prompt, ChatOutputs)
    /\ UNCHANGED <<router_history, http_pending>>
    /\ UNCHANGED <<guardVars, graphVars, laterVars>>

\* daily_brief: clear_conversation, then process_request
DailyBrief ==
    /\ Len(session_history) < MaxRequests
    /\ process_request(<<>>, <<>>, T_brief_prompt, ChatOutputs)
    /\ UNCHANGED <<router_history, http_pending>>
    /\ UNCHANGED <<guardVars, graphVars, laterVars>>

OrchNext ==
    \/ RouterProcessRequest
    \/ ReactProcessRequest
    \/ ClearConversation

ReactNext ==
    \/ AiChatReceive
    \/ AiChat
    \/ AiTriage
    \/ DailyBrief
    \/ ClearConversation

SpecReact == Init /\ [][ReactNext]_vars

SpecOrch == Init /\ [][OrchNext]_vars

\* C4 (as claimed): in both orchestrators the first call process_request makes
\* is the user_request guardrail on the raw input, and an input the guardrail
\* rejects is answered with the blocked message without graph.invoke.
C4_BothOrchestratorsScreen ==
    request.orch \in {"router", "react"} =>
        /\ request.calls[1].name = "apply_guardrails"
        /\ request.calls[1].action = S_user_request
        /\ request.calls[1].input = request.input
        /\ ~request.calls[1].approved =>
              /\ \A i \in DOMAIN request.calls : request.calls[i].name # "graph.invoke"
              /\ request.response.kind = "blocked"

\* the transcript a call log stands for: one user turn and one assistant turn
\* per call, in call order
Flatten(log) ==
    [ i \in 1..(2 * Len(log)) |->
        IF i % 2 = 1 THEN <<"user", log[(i + 1) \div 2].input>>
                     ELSE <<"assistant", log[i \div 2].reply>> ]

\* C13: whatever the order in which direct calls, suspended chat requests and
\* the clearing endpoints run, the transcript is one (user input, assistant
\* reply) pair per process_request call since the last clear, in call order,
\* failed calls included (so it is empty after clear_conversation), and the
\* last call sent the graph the whole transcript up to and including its own
\* user turn.
C13_TranscriptPairs ==
    /\ conversation_messages = Flatten(react_log)
    /\ request.orch = "react" =>
          /\ react_log # <<>>
          /\ react_log[Len(react_log)].input = request.input
          /\ request.sent =
                 AsMessages(SubSeq(conversation_messages, 1, Len(conversation_messages) - 1))
          /\ request.sent[Len(request.sent)] = HumanMessage(request.input)

\* C13 witness: a second call failed while another chat request was suspended
C13_Witness ==
    /\ Len(react_log) = 2
    /\ request.orch = "react"
    /\ request.response.kind = "error"
    /\ http_pending # <<>>

\* C14 (as claimed): the string a ReAct call returns is the content of the
\* last message of the run's result, which carries no tool calls; it is not
\* taken from a tool message or from a user turn.
C14_ReturnsFinalMessage ==
    (request.orch = "react" /\ request.response.kind = "answer") =>
        LET final == request.result[Len(request.result)]
        IN  /\ final.type = "ai"
            /\ final.tool_calls = <<>>
            /\ request.response.text = final.content
            /\ request.response.from \notin {"tool", "human"}

\* C15 (as claimed): the session statistics report as total_messages the number
\* of messages in the results the graph returned, and as tool_calls the number
\* of those messages that carried tool calls, summed over the session.
C15_StatsCount ==
    /\ get_session_stats(session_history).total_messages = react_results.messages
    /\ get_session_stats(session_history).tool_calls = react_results.tool_calls

(***************************************************************************)
(* orchestrator.py: the legacy workflow graph                              *)
(*   route_workflow -> one of four workflow states -> finalize -> END      *)
(* A workflow state is one handler: its awaits are the points where an     *)
(* agent call may raise.  GraphState keys no handler touches are left out. *)
(***************************************************************************)
DictPut(d, k, v) == [x \in DOMAIN d \cup {k} |-> IF x = k THEN v ELSE d[x]]
Take(s, n) == SubSeq(s, 1, Min(Len(s), n))

AgentAction(agent_type, action, now) ==
    [agent_type |-> agent_type, action |-> action, status |-> "started",
     timestamp |-> now, result |-> <<>>, error |-> None]

\* state["agent_actions"][-1].status = "completed"; ....result = res
Completed(acts, res) ==
    [acts EXCEPT ![Len(acts)].status = "completed", ![Len(acts)].result = res]

\* if state["agent_actions"]: [-1].status = "failed"; [-1].error = str(e)
Failed(acts, e) ==
    IF acts = <<>> THEN acts
    ELSE [acts EXCEPT ![Len(acts)].status = "failed", ![Len(acts)].error = e]

\* the except branch of a workflow state; `results` is the local dict, dropped
Raised(state, acts, e, results) ==
    [state  |-> [state EXCEPT !.status = "error", !.error = e,
                              !.agent_actions = Failed(acts, e)],
     raised |-> e,
     local_results |-> results]

\* the end of the try block: state["results"] = results; status = "completed"
Finished(state, acts, results) ==
    [state  |-> [state EXCEPT !.results = results, !.status = "completed",
                              !.agent_actions = acts],
     raised |-> None,
     local_results |-> results]

\* what the LLM may say of one email, and the texts str(e) may be
TriageResults == [priority : {"urgent", "medium"}, requires_response : BOOLEAN]
ErrorTexts    == {"timeout", ""}

Triaged(emails, triage) ==
    [i \in DOMAIN emails |-> [email_id |-> emails[i], triage_result |-> triage[i]]]

IsUrgent(e) == e.triage_result.priority = "urgent"
NeedsReply(e) == IsUrgent(e) /\ e.triage_result.requires_response

\* email_agent.suggest_email_actions
suggest_email_actions(triaged_emails) ==
    LET urgent == SelectSeq(triaged_emails, IsUrgent)
        needs_response ==
            SelectSeq(triaged_emails, LAMBDA e : e.triage_result.requires_response)
        respond == SelectSeq(urgent, LAMBDA e : e.triage_result.requires_response)
    IN  [urgent_count |-> Len(urgent),
         urgent_emails |-> Take(urgent, 5),
         needs_response_count |-> Len(needs_response),
         suggested_actions |->
             [i \in DOMAIN respond |-> [email_id |-> respond[i].email_id, action |-> "respond"]]]

_morning_startup_workflow(state, now, fail, e, triage) ==
    LET emails  == state.emails
        events  == state.calendar_events
        tasks   == state.tasks
        triaged == Triaged(emails, triage)
        a1 == Append(state.agent_actions, AgentAction("email", "triage_emails", now))
    IN  IF emails # <<>> /\ fail = "triage_emails" THEN Raised(state, a1, e, EmptyDict)
        ELSE
        LET s1 == IF emails # <<>> THEN [state EXCEPT !.triaged_emails = triaged] ELSE state
        IN  IF emails # <<>> /\ fail = "suggest_email_actions"
            THEN Raised(s1, a1, e, EmptyDict)
        ELSE
        LET r1  == IF emails # <<>>
                   THEN DictPut(EmptyDict, "email_triage", suggest_email_actions(triaged))
                   ELSE EmptyDict
            a1c == IF emails # <<>>
                   THEN Completed(a1, <<"Triaged", Len(triaged), "emails">>) ELSE a1
            a2  == Append(a1c, AgentAction("calendar", "check_todays_meetings", now))
        IN  IF events # <<>> /\ fail = "prepare_for_meeting" THEN Raised(s1, a2, e, r1)
        ELSE
        LET urgent == IF "email_triage" \in DOMAIN r1
                      THEN r1["email_triage"].urgent_emails ELSE <<>>
            top    == Take(events, 3)
            meeting_preps == [i \in DOMAIN top |-> [meeting |-> top[i], emails |-> urgent]]
            s2  == IF events # <<>> THEN [s1 EXCEPT !.meeting_preps = meeting_preps] ELSE s1
            r2  == IF events # <<>> THEN DictPut(r1, "meeting_prep", meeting_preps) ELSE r1
            a2c == IF events # <<>>
                   THEN Completed(a2, <<"Prepared", Len(meeting_preps), "meetings">>) ELSE a2
            a3  == Append(a2c, AgentAction("task", "prioritize_tasks", now))
        IN  IF tasks # <<>> /\ fail = "prioritize_tasks" THEN Raised(s2, a3, e, r2)
        ELSE
        LET s3 == IF tasks # <<>> THEN [s2 EXCEPT !.prioritized_tasks = tasks] ELSE s2
        IN  IF tasks # <<>> /\ fail = "suggest_next_task" THEN Raised(s3, a3, e, r2)
        ELSE
        LET r3  == IF tasks # <<>>
                   THEN DictPut(r2, "task_suggestion", [suggested_task |-> tasks[1]]) ELSE r2
            a3c == IF tasks # <<>>
                   THEN Completed(a3, <<"Prioritized", Len(tasks), "tasks">>) ELSE a3
            a4  == Append(a3c, AgentAction("context", "daily_briefing", now))
        IN  IF fail = "get_daily_context" THEN Raised(s3, a4, e, r3)
            ELSE Finished(s3, Completed(a4, <<"Daily briefing ready">>),
                          DictPut(r3, "daily_context", [user_id |-> "user"]))

\* the methods GuardrailsSystem defines (guardrails.py:40-244)
GuardrailsMethods ==
    {"__init__", "check_sensitive_content", "check_dangerous_action", "check_rate_limit",
     "check_email_send", "check_calendar_operation", "_is_valid_email",
     "get_status_report", "_format_recent_actions"}

\* what the drafting LLM call may do: raise, answer text that holds no JSON
\* object, or answer the JSON object asked for
DraftReplies == {"raises", "prose", "json"}

\* the dict draft_response returns from its except clause
DraftError(error) ==
    [draft |-> "", tone |-> "unknown", key_points |-> <<>>,
     suggestions |-> <<"Error:", error>>, guardrail_check |-> [valid |-> FALSE],
     requires_approval |-> TRUE]

\* EmailAgent.draft_response: the whole body is inside try/except Exception.
\* After the JSON is parsed it calls guardrails.validate_email_send, a method
\* GuardrailsSystem does not have, so the statements after that call
\* (email_agent.py:138-141) run in no execution.
draft_response(email_data, context, reply) ==
    IF reply = "raises" THEN DraftError("llm")
    ELSE IF reply = "prose" THEN DraftError("JSONDecodeError")
    ELSE IF "validate_email_send" \notin GuardrailsMethods THEN DraftError("AttributeError")
    ELSE [draft |-> "text", tone |-> "professional", key_points |-> <<>>,
          suggestions |-> <<>>, guardrail_check |-> [valid |-> TRUE],
          requires_approval |-> FALSE]

\* `replies` says, per email, what the drafting LLM call does
_email_triage_workflow(state, now, fail, e, triage, replies) ==
    LET emails  == state.emails
        triaged == Triaged(emails, triage)
        a1 == Append(state.agent_actions, AgentAction("email", "triage_and_draft", now))
    IN  IF emails = <<>> THEN Finished(state, a1, EmptyDict)
        ELSE IF fail = "triage_emails" THEN Raised(state, a1, e, EmptyDict)
        ELSE
        LET s1   == [state EXCEPT !.triaged_emails = triaged]
            reply == SelectSeq(triaged, NeedsReply)
            drafts ==
                [i \in DOMAIN reply |->
                    [email_id |-> reply[i].email_id,
                     draft |-> draft_response(reply[i].email_id, "summary",
                                              replies[reply[i].email_id])]]
            results ==
                DictPut(DictPut(DictPut(EmptyDict, "triaged_count", Len(triaged)),
                                "drafts_created", Len(drafts)), "drafts", drafts)
            flagged == SelectSeq(drafts, LAMBDA d : d.draft.requires_approval)
            s2 == [s1 EXCEPT !.draft_emails = drafts]
            s3 == IF flagged # <<>>
                  THEN [s2 EXCEPT !.requires_approval = TRUE,
                                  !.approval_items =
                                      [i \in DOMAIN flagged |->
                                          [type |-> "email_draft",
                                           email_id |-> flagged[i].email_id,
                                           draft |-> flagged[i].draft.draft]]]
                  ELSE s2
        IN  Finished(s3, Completed(a1, <<"Triaged", Len(triaged), "emails, created",
                                         Len(drafts), "drafts">>), results)

_context_switch_workflow(state, now, fail, e) ==
    LET project_name == state.parameters.project_name
        a1 == Append(state.agent_actions, AgentAction("context", "switch_context", now))
    IN  IF project_name = "" THEN Finished(state, a1, EmptyDict)
        ELSE IF fail = "switch_context" THEN Raised(state, a1, e, EmptyDict)
        ELSE LET context == [project |-> project_name]
             IN  Finished([state EXCEPT !.current_context = context],
                          Completed(a1, <<"Switched to", project_name>>),
                          DictPut(EmptyDict, "context", context))

_meeting_prep_workflow(state, now, fail, e) ==
    LET meeting_id == state.parameters.meeting_id
        events == state.calendar_events
        found  == { i \in DOMAIN events : events[i] = meeting_id }
        a1 == Append(state.agent_actions, AgentAction("meeting", "prepare_meeting", now))
    IN  IF found = {} THEN Finished(state, a1, EmptyDict)
        ELSE IF fail \in {"get_project_context", "prepare_for_meeting"}
        THEN Raised(state, a1, e, EmptyDict)
        ELSE LET meeting == events[CHOOSE i \in found : \A j \in found : i <= j]
             IN  Finished(state, Completed(a1, <<"Prepared meeting:", meeting>>),
                          DictPut(EmptyDict, "preparation", [meeting |-> meeting]))

\* (mutant) finalize reports completion whatever the status was
_finalize_overwrites(state) == [state EXCEPT !.status = "completed"]

_finalize(state) ==
    IF state.status # "error" THEN [state EXCEPT !.status = "completed"] ELSE state

_route_decision(state) == state.workflow_type

\* the reducer of the agent_actions channel (graph_state.py:36)
operator_add(a, b) == a \o b

\* bound on the emails of a workflow request
MaxEmails == 2

WorkflowTypes == {"morning_startup", "email_triage", "context_switch", "meeting_prep"}
EmailLists    == { [i \in 1..n |-> i] : n \in 0..MaxEmails }
EventLists    == { <<>>, <<1>>, <<1, 2, 3, 4>> }
TaskLists     == { <<>>, <<1>> }
ParameterSets == [project_name : {"", "apollo"}, meeting_id : {0, 1}]

\* WorkspaceOrchestrator.execute_workflow: initial_state, then graph.ainvoke
ExecuteWorkflow ==
    /\ wf_node = "idle"
    /\ \E wt \in WorkflowTypes, emails \in EmailLists, events \in EventLists,
          tasks \in TaskLists, parameters \in ParameterSets :
          graph_state' =
              [workflow_type |-> wt, parameters |-> parameters,
               emails |-> emails, calendar_events |-> events, tasks |-> tasks,
               triaged_emails |-> <<>>, draft_emails |-> <<>>, meeting_preps |-> <<>>,
               prioritized_tasks |-> <<>>, current_context |-> [project |-> None],
               agent_actions |-> <<>>, requires_approval |-> FALSE,
               approval_items |-> <<>>, results |-> EmptyDict,
               status |-> "pending", error |-> None]
    /\ wf_node' = "route_workflow"
    /\ wf_visited' = <<>>
    /\ wf_raised' = None
    /\ wf_local_results' = <<>>
    /\ UNCHANGED notLegacy

\* _route_workflow, then the conditional edge.  The node returns the whole
\* state, so the reducer adds the returned (emptied) list to the channel.
RouteWorkflow ==
    /\ wf_node = "route_workflow"
    /\ graph_state' = [graph_state EXCEPT
                          !.status = "routing",
                          !.agent_actions = operator_add(graph_state.agent_actions, <<>>)]
    /\ wf_node' = _route_decision(graph_state)
    /\ wf_visited' = Append(wf_visited, wf_node)
    /\ UNCHANGED <<wf_raised, wf_local_results>>
    /\ UNCHANGED notLegacy

\* a workflow state returns: the handler appended to the channel's own list
\* and returns it again inside the state, and the reducer adds the two
WorkflowReturn(out) ==
    /\ graph_state' = [out.state EXCEPT
                          !.agent_actions =
                              operator_add(out.state.agent_actions, out.state.agent_actions)]
    /\ wf_raised' = out.raised
    /\ wf_local_results' = out.local_results
    /\ wf_node' = "finalize"
    /\ wf_visited' = Append(wf_visited, wf_node)
    /\ UNCHANGED notLegacy

MorningFails == {"none", "triage_emails", "suggest_email_actions", "prepare_for_meeting",
                 "prioritize_tasks", "suggest_next_task", "get_daily_context"}

MorningStartup ==
    /\ wf_node = "morning_startup"
    /\ \E fail \in MorningFails, e \in ErrorTexts,
          triage \in [DOMAIN graph_state.emails -> TriageResults] :
          WorkflowReturn(_morning_startup_workflow(graph_state, clock, fail, e, triage))

EmailTriage ==
    /\ wf_node = "email_triage"
    /\ \E fail \in {"none", "triage_emails"}, e \in ErrorTexts,
          triage \in [DOMAIN graph_state.emails -> TriageResults],
          replies \in [{ graph_state.emails[i] : i \in DOMAIN graph_state.emails }
                          -> DraftReplies] :
          WorkflowReturn(_email_triage_workflow(graph_state, clock, fail, e, triage, replies))

ContextSwitch ==
    /\ wf_node = "context_switch"
    /\ \E fail \in {"none", "switch_context"}, e \in ErrorTexts :
          WorkflowReturn(_context_switch_workflow(graph_state, clock, fail, e))

MeetingPrep ==
    /\ wf_node = "meeting_prep"
    /\ \E fail \in {"none", "get_project_context", "prepare_for_meeting"}, e \in ErrorTexts :
          WorkflowReturn(_meeting_prep_workflow(graph_state, clock, fail, e))

\* _finalize, then the edge finalize -> END
Finalize ==
    /\ wf_node = "finalize"
    /\ LET state == _finalize(graph_state)
       IN  graph_state' = [state EXCEPT
                              !.agent_actions =
                                  operator_add(state.agent_actions, state.agent_actions)]
    /\ wf_node' = "END"
    /\ wf_visited' = Append(wf_visited, wf_node)
    /\ UNCHANGED <<wf_raised, wf_local_results>>
    /\ UNCHANGED notLegacy

\* execute_workflow returns the final state to its caller (orchestrator.py:355)
WorkflowDone ==
    /\ wf_node = "END"
    /\ graph_state' = [status |-> "none"]
    /\ wf_node' = "idle"
    /\ wf_visited' = <<>>
    /\ wf_raised' = None
    /\ wf_local_results' = <<>>
    /\ UNCHANGED notLegacy

LegacyNext ==
    \/ ExecuteWorkflow
    \/ WorkflowDone
    \/ RouteWorkflow
    \/ MorningStartup
    \/ EmailTriage
    \/ ContextSwitch
    \/ MeetingPrep
    \/ Finalize

SpecLegacy == Init /\ [][LegacyNext]_vars

LastAction == graph_state.agent_actions[Len(graph_state.agent_actions)]

\* C11: a finished run has visited route_workflow, its workflow state and
\* finalize; if the workflow state raised, the final status is 'error', the
\* error is the exception's text and the last logged action is 'failed' with
\* that text; if it did not raise, the final status is 'completed'.
C11_ErrorsContained ==
    wf_node = "END" =>
        /\ wf_visited = <<"route_workflow", graph_state.workflow_type, "finalize">>
        /\ IF wf_raised # None
           THEN /\ graph_state.status = "error"
                /\ graph_state.error # None
                /\ graph_state.error = wf_raised
                /\ graph_state.agent_actions # <<>>
                /\ LastAction.status = "failed"
                /\ LastAction.error = wf_raised
           ELSE graph_state.status = "completed"

\* C11 witness: a finished run whose workflow state raised
C11_Witness ==
    /\ wf_node = "END"
    /\ wf_raised # None
    /\ graph_state.status = "error"
    /\ LastAction.status = "failed"

\* C12 (as claimed): when a workflow state raised, every sub-result it had
\* computed before the failure is in the final state's results map.
C12_PartialResultsKept ==
    (wf_node = "END" /\ wf_raised # None) =>
        \A k \in DOMAIN wf_local_results :
            /\ k \in DOMAIN graph_state.results
            /\ graph_state.results[k] = wf_local_results[k]

\* C23 (as claimed): when a legacy workflow run has finished, no AgentAction
\* of its audit trail is still 'started', whatever emails, calendar events,
\* tasks and parameters were supplied.
C23_NoneLeftStarted ==
    wf_node = "END" =>
        \A i \in DOMAIN graph_state.agent_actions :
            graph_state.agent_actions[i].status # "started"

\* a finished email_triage run that did not fail
TriageRunDone ==
    /\ wf_node = "END"
    /\ graph_state.workflow_type = "email_triage"
    /\ graph_state.status # "error"

\* C24: at the end of every email_triage run that did not fail, draft_emails
\* holds one reply for each triaged email that is urgent and requires a
\* response, in order, and no other; approval_items holds one 'email_draft'
\* item for each of those replies whose requires_approval is set, in order;
\* and requires_approval is true exactly when approval_items is not empty.
C24_ApprovalItemsExact ==
    TriageRunDone =>
        LET triaged == graph_state.triaged_emails
            drafts  == graph_state.draft_emails
            items   == graph_state.approval_items
            due     == SelectSeq(triaged,
                                 LAMBDA t : /\ t.triage_result.priority = "urgent"
                                            /\ t.triage_result.requires_response)
            flagged == SelectSeq(drafts, LAMBDA d : d.draft.requires_approval)
        IN  /\ [i \in DOMAIN drafts |-> drafts[i].email_id]
                 = [i \in DOMAIN due |-> due[i].email_id]
            /\ items = [i \in DOMAIN flagged |->
                           [type |-> "email_draft", email_id |-> flagged[i].email_id,
                            draft |-> flagged[i].draft.draft]]
            /\ graph_state.requires_approval <=> items # <<>>

\* C24 witness: a finished email_triage run over two emails of which exactly
\* one was urgent and required a response; its reply is the one approval item
C24_Witness ==
    /\ TriageRunDone
    /\ Len(graph_state.triaged_emails) = 2
    /\ Len(graph_state.draft_emails) = 1
    /\ Len(graph_state.approval_items) = 1
    /\ graph_state.requires_approval

\* C30 (as claimed): in the final state of a run of the legacy graph each
\* AgentAction logged during the run appears once in agent_actions: no two
\* positions of the trail hold the same action.
C30_TrailNotDuplicated ==
    wf_node = "END" =>
        \A i, j \in DOMAIN graph_state.agent_actions :
            graph_state.agent_actions[i] = graph_state.agent_actions[j] => i = j

(***************************************************************************)
(* main.py: ConnectionManager.  The handlers are coroutines of one event   *)
(* loop: a step runs from one await to the next, and while broadcast is    *)
(* suspended in `await connection.send_json` the socket handlers run.      *)
(***************************************************************************)
\* bound on the sockets that ever connect
MaxSockets == 3

Sockets == 1..MaxSockets

Elements(list) == { list[i] : i \in DOMAIN list }

\* list.remove(x): drops the first occurrence
list_remove(list, x) ==
    LET i == CHOOSE j \in DOMAIN list : list[j] = x /\ \A k \in 1..(j - 1) : list[k] # x
    IN  SubSeq(list, 1, i - 1) \o SubSeq(list, i + 1, Len(list))

\* ConnectionManager.connect, called first by websocket_endpoint
Connect ==
    /\ \E websocket \in Sockets \ Elements(active_connections) :
          active_connections' = Append(active_connections, websocket)
    /\ UNCHANGED <<bc_pc, bc_index, bc_current, bc_attempted, bc_failed, bc_stayers, bc_raised>>
    /\ UNCHANGED notWs

\* websocket_endpoint's except branches: ConnectionManager.disconnect
Disconnect ==
    /\ \E websocket \in Elements(active_connections) :
          /\ active_connections' = list_remove(active_connections, websocket)
          /\ bc_stayers' = bc_stayers \ {websocket}
    /\ UNCHANGED <<bc_pc, bc_index, bc_current, bc_attempted, bc_failed, bc_raised>>
    /\ UNCHANGED notWs

\* the header of `for connection in self.active_connections`: the iterator
\* yields the element at its index in the list as it is now, or stops
NextConnection(index, attempted) ==
    IF index < Len(active_connections)
    THEN /\ bc_pc' = "sending"
         /\ bc_current' = active_connections[index + 1]
         /\ bc_index' = index + 1
         /\ bc_attempted' = attempted \cup {active_connections[index + 1]}
    ELSE /\ bc_pc' = "done"
         /\ bc_current' = 0
         /\ bc_index' = index
         /\ bc_attempted' = attempted

\* ConnectionManager.broadcast is entered (execute_workflow, main.py:171)
BroadcastStart ==
    /\ bc_pc \in {"idle", "done"}
    /\ NextConnection(0, {})
    /\ bc_failed' = {}
    /\ bc_stayers' = Elements(active_connections)
    /\ bc_raised' = FALSE
    /\ UNCHANGED active_connections
    /\ UNCHANGED notWs

\* send_json returns or raises; `except: pass`; the loop takes the next element
SendReturns ==
    /\ bc_pc = "sending"
    /\ \E ok \in BOOLEAN :
          bc_failed' = IF ok THEN bc_failed ELSE bc_failed \cup {bc_current}
    /\ NextConnection(bc_index, bc_attempted)
    /\ UNCHANGED <<active_connections, bc_stayers, bc_raised>>
    /\ UNCHANGED notWs

WsNext ==
    \/ Connect
    \/ Disconnect
    \/ BroadcastStart
    \/ SendReturns

SpecBroadcast == Init /\ [][WsNext]_vars

\* C16 (as claimed): when a broadcast has finished, send_json was called on
\* every connection that was in the list from the broadcast's start to its
\* end, whatever connected or disconnected while it was suspended.
C16_BroadcastReachesAll ==
    bc_pc = "done" => bc_stayers \subseteq bc_attempted

\* C17 (as claimed): when a send failed during a finished broadcast, the
\* broadcast did not raise and send_json was called on every other
\* connection that was in the list throughout.
C17_FailureSwallowed ==
    (bc_pc = "done" /\ bc_failed # {}) =>
        /\ ~bc_raised
        /\ (bc_stayers \ bc_failed) \subseteq bc_attempted

(***************************************************************************)
(* orchestrator_modern.py: AgentRouter.check_loop as a function of its     *)
(* arguments                                                               *)
(***************************************************************************)
MAX_DELEGATION_DEPTH == 3
MAX_CONTEXT_LENGTH == 10000
MAX_MESSAGES == 20

\* bound on the length of the delegation histories check_loop is called with
MaxHistory == 4

A_email    == <<"e","m","a","i","l">>
A_calendar == <<"c","a","l","e","n","d","a","r">>
A_task     == <<"t","a","s","k">>
A_end      == <<"e","n","d">>

LoopAgents == {A_email, A_calendar, A_task}
Histories  == UNION { [1..n -> LoopAgents] : n \in 0..MaxHistory }

\* list.count(x)
Count(list, x) == Cardinality({ i \in DOMAIN list : list[i] = x })

\* (mutant) check_loop without the A -> B -> A rule
check_loop_without_aba(current_agent, delegation_history) ==
    IF delegation_history = <<>> THEN FALSE
    ELSE IF delegation_history[Len(delegation_history)] = current_agent THEN TRUE
    ELSE IF Count(delegation_history, current_agent) >= 2 THEN TRUE
    ELSE FALSE

check_loop(current_agent, delegation_history) ==
    IF delegation_history = <<>> THEN FALSE
    ELSE IF delegation_history[Len(delegation_history)] = current_agent THEN TRUE
    ELSE IF /\ Len(delegation_history) >= 2
            /\ delegation_history[Len(delegation_history) - 1] = current_agent THEN TRUE
    ELSE IF Count(delegation_history, current_agent) >= 2 THEN TRUE
    ELSE FALSE

LoopInit ==
    /\ ImpureInit
    /\ pure_in \in { [fn |-> "check_loop", current_agent |-> a, delegation_history |-> h] :
                        a \in LoopAgents \cup {A_end}, h \in Histories }
    /\ pure_out = NotCalled

CheckLoop ==
    /\ pure_in.fn = "check_loop"
    /\ ~pure_out.done
    /\ pure_out' = [done |-> TRUE,
                    value |-> check_loop(pure_in.current_agent, pure_in.delegation_history)]
    /\ UNCHANGED pure_in
    /\ UNCHANGED notPure

LoopNext == CheckLoop

SpecLoop == LoopInit /\ [][LoopNext]_vars

LoopCalled == pure_in.fn = "check_loop" /\ pure_out.done

\* C18: check_loop reports a loop exactly when the history is not empty and
\* the agent is its last entry, or the entry before the last, or occurs in it
\* at least twice; [email, calendar, email] -> email and [email, calendar] ->
\* email are loops, [calendar] -> email is not.
C18_CheckLoopExact ==
    LoopCalled =>
        LET agent == pure_in.current_agent
            history == pure_in.delegation_history
            n == Len(history)
        IN  /\ pure_out.value =
                   (/\ n > 0
                    /\ \/ history[n] = agent
                       \/ n >= 2 /\ history[n - 1] = agent
                       \/ Cardinality({ i \in 1..n : history[i] = agent }) >= 2)
            /\ (agent = A_email /\ history = <<A_email, A_calendar, A_email>>) => pure_out.value
            /\ (agent = A_email /\ history = <<A_email, A_calendar>>) => pure_out.value
            /\ (agent = A_email /\ history = <<A_calendar>>) => ~pure_out.value

\* C18 witness: the call with history [email, calendar] and agent email
\* reported a loop
C18_Witness ==
    /\ LoopCalled
    /\ pure_in.current_agent = A_email
    /\ pure_in.delegation_history = <<A_email, A_calendar>>
    /\ pure_out.value

(***************************************************************************)
(* orchestrator_modern.py: the router orchestrator's graph                 *)
(*   START -> orchestrator -> email | calendar | aggregate | END           *)
(*   email -> aggregate, calendar -> aggregate, aggregate -> END           *)
(* No channel of WorkspaceState has a reducer: a node's returned keys      *)
(* replace the state's.                                                    *)
(***************************************************************************)
A_context  == <<"c","o","n","t","e","x","t">>
A_meeting  == <<"m","e","e","t","i","n","g">>
A_document == <<"d","o","c","u","m","e","n","t">>
AGENTS == {A_email, A_calendar, A_task, A_context, A_meeting, A_document}

\* Python's None as the value of current_agent (no str.lower() yields it)
NoAgent == <<"N","o","n","e">>

SystemMessage(content) ==
    [type |-> "system", content |-> content, more |-> 0, tool_calls |-> <<>>]

\* str.strip()
RECURSIVE Strip(_)
Strip(text) ==
    IF text = <<>> THEN text
    ELSE IF Head(text) \in Space THEN Strip(Tail(text))
    ELSE IF text[Len(text)] \in Space THEN Strip(SubSeq(text, 1, Len(text) - 1))
    ELSE text

\* what the routing LLM may answer
RouteReplies == { <<"e","m","a","i","l">>, <<" ","C","a","l","e","n","d","a","r","\n">>, <<"t","a","s","k">>, <<"m","e","e","t","i","n","g">>, <<"e","n","d">>, <<"n","o","t"," ","s","u","r","e">> }

\* AgentRouter.route_request, `reply` being the LLM's response.content
route_request(raw_input, delegation_history, reply) ==
    IF Len(delegation_history) >= MAX_DELEGATION_DEPTH THEN A_end
    ELSE LET agent == Lower(Strip(reply))
         IN  IF agent \notin AGENTS /\ agent # A_end THEN A_email ELSE agent

\* AgentRouter.can_execute_parallel
parallel_keywords ==
    << [agent |-> A_email,    keywords |-> {<<"e","m","a","i","l">>, <<"i","n","b","o","x">>, <<"m","e","s","s","a","g","e">>}],
       [agent |-> A_calendar, keywords |-> {<<"c","a","l","e","n","d","a","r">>, <<"s","c","h","e","d","u","l","e">>, <<"m","e","e","t","i","n","g">>, <<"e","v","e","n","t">>}],
       [agent |-> A_task,     keywords |-> {<<"t","a","s","k">>, <<"t","o","d","o">>, <<"p","r","i","o","r","i","t","y">>}] >>

can_execute_parallel(raw_input) ==
    LET user_lower == Lower(raw_input)
        matching == SelectSeq(parallel_keywords,
                              LAMBDA entry : \E kw \in entry.keywords : Contains(user_lower, kw))
        matching_agents == [i \in DOMAIN matching |-> matching[i].agent]
    IN  IF Len(matching_agents) >= 2 THEN matching_agents ELSE <<>>

\* parallel_router: the Send commands of a fan-out.  The function is defined
\* (orchestrator_modern.py:292-312) but no node or edge of the graph
\* (316-340) refers to it, so no step of the run applies it.
parallel_router(state) ==
    LET parallel_agents == can_execute_parallel(state.user_input)
    IN  [i \in DOMAIN parallel_agents |->
            [node |-> parallel_agents[i],
             arg  |-> [user_input |-> state.user_input, messages |-> state.messages]]]

\* context_manager.needs_summarization
needs_summarization(msgs) ==
    Len(msgs) > MAX_MESSAGES \/ SumContentLen(msgs) > MAX_CONTEXT_LENGTH

LoopNotice    == <<"I"," ","d","e","t","e","c","t","e","d"," ","a"," ","p","o","t","e","n","t","i","a","l"," ","l","o","o","p"," ","i","n"," ","a","g","e","n","t"," ","d","e","l","e","g","a","t","i","o","n","."," ","L","e","t"," ","m","e"," ","p","r","o","v","i","d","e"," ","a"," ","d","i","r","e","c","t"," ","a","n","s","w","e","r"," ","i","n","s","t","e","a","d",".">>
SummaryPrefix == <<"P","r","e","v","i","o","u","s"," ","c","o","n","t","e","x","t"," ","s","u","m","m","a","r","y",":"," ">>
T_summary     == <<"S","u","m","m","a","r","y",".">>

\* the keys a node returns replace the state's
Update(state, returned) ==
    [k \in DOMAIN state |-> IF k \in DOMAIN returned THEN returned[k] ELSE state[k]]

\* orchestrator_node: the dict it returns
orchestrator_node(state, reply) ==
    LET delegation_history == state.delegation_history
        next_agent == route_request(state.user_input, delegation_history, reply)
    IN  IF needs_summarization(state.messages)
        THEN [messages |-> <<SystemMessage(SummaryPrefix \o T_summary)>>,
              context_length |-> Len(T_summary)]
        ELSE IF check_loop(next_agent, delegation_history)
        THEN [loop_detected |-> TRUE,
              current_agent |-> NoAgent,
              messages |-> Append(state.messages, AIMessage(LoopNotice, <<>>))]
        ELSE [current_agent |-> next_agent,
              delegation_history |-> IF next_agent # A_end
                                     THEN Append(delegation_history, next_agent)
                                     ELSE delegation_history]

\* should_continue of orchestrator_modern.py, which the model names
\* route_after_orchestrator: the email graph's should_continue keeps the name
route_after_orchestrator(state) ==
    IF state.loop_detected THEN "end"
    ELSE IF state.rate_limit_exceeded THEN "end"
    ELSE IF state.current_agent = NoAgent \/ state.current_agent = A_end
         THEN IF Cardinality(DOMAIN state.results) > 1 THEN "aggregate" ELSE "end"
    ELSE IF state.current_agent = A_email THEN "email"
    ELSE IF state.current_agent = A_calendar THEN "calendar"
    ELSE "end"

T_both == <<"C","h","e","c","k"," ","m","y"," ","e","m","a","i","l","s"," ","a","n","d"," ","c","a","l","e","n","d","a","r"," ","f","o","r"," ","t","o","d","a","y">>
T_cal  == <<"W","h","a","t","'","s"," ","o","n"," ","m","y"," ","c","a","l","e","n","d","a","r"," ","t","o","d","a","y","?">>
T_free == <<"f","i","n","d"," ","a"," ","f","r","e","e"," ","s","l","o","t">>
T_send == <<"S","e","n","d"," ","t","h","e"," ","r","e","p","o","r","t"," ","t","o"," ","b","o","b">>
T_search == <<"s","e","a","r","c","h"," ","m","a","i","l"," ","f","r","o","m"," ","a","l","i","c","e">>
RouterInputs == {T_plain, T_both, T_cal, T_free, T_send, T_search}

T_events == <<"S","t","a","n","d","u","p"," ","a","t"," ","1","0",":","0","0",".">>
T_none   == <<"N","o","t","h","i","n","g"," ","f","o","u","n","d",".">>
T_sent == <<"E","m","a","i","l"," ","s","e","n","t",".">>
EmailResults    == {T_answer, T_none, T_sent}
T_slots == <<"F","r","e","e"," ","a","t"," ","1","4",":","0","0",".">>
CalendarResults == {T_events, T_none, T_slots}

\* (mutant) the agents hand back to the orchestrator node
add_edge_back_to_orchestrator(from) ==
    IF from \in {"email", "calendar"} THEN "orchestrator" ELSE "END"

\* workflow.add_edge: the unconditional edges of the graph
add_edge(from) ==
    IF from \in {"email", "calendar"} THEN "aggregate" ELSE "END"

\* WorkspaceOrchestrator.process_request from initial_state to graph.invoke
RouterStart ==
    /\ rt_node = "idle"
    /\ \E raw_input \in RouterInputs :
          workspace_state' =
              [messages |-> <<>>, user_input |-> raw_input, current_agent |-> NoAgent,
               delegation_history |-> <<>>, results |-> EmptyDict,
               requires_approval |-> FALSE, context_length |-> 0,
               loop_detected |-> FALSE, rate_limit_exceeded |-> FALSE]
    /\ rt_node' = "orchestrator"
    /\ rt_ran' = <<>>
    /\ UNCHANGED notRouter

\* the orchestrator node and its conditional edge
OrchestratorNode ==
    /\ rt_node = "orchestrator"
    /\ \E reply \in RouteReplies :
          LET state == Update(workspace_state, orchestrator_node(workspace_state, reply))
              branch == route_after_orchestrator(state)
          IN  /\ workspace_state' = state
              /\ rt_node' = IF branch = "end" THEN "END" ELSE branch
    /\ UNCHANGED rt_ran
    /\ UNCHANGED notRouter

HasWord(text, words) == \E word \in words : Contains(text, word)

\* email_agent_node, then the edge email -> aggregate
EmailAgentNode ==
    /\ rt_node = "email"
    /\ \E email_result \in EmailResults :
          LET lowered == Lower(workspace_state.user_input)
              made == IF HasWord(lowered, {<<"t","r","i","a","g","e">>, <<"c","h","e","c","k">>, <<"u","n","r","e","a","d">>})
                      THEN [agent |-> A_email, call |-> "triage_emails", max_emails |-> 10]
                      ELSE IF Contains(lowered, <<"s","e","n","d">>)
                      THEN [agent |-> A_email, call |-> "send_email", max_emails |-> 0]
                      ELSE IF Contains(lowered, <<"s","e","a","r","c","h">>)
                      THEN [agent |-> A_email, call |-> "search_emails", max_emails |-> 0]
                      ELSE [agent |-> A_email, call |-> "triage_emails", max_emails |-> 5]
          IN  /\ workspace_state' =
                     Update(workspace_state,
                            [results  |-> DictPut(workspace_state.results, "email", email_result),
                             messages |-> Append(workspace_state.messages,
                                                 AIMessage(email_result, <<>>))])
              /\ rt_ran' = Append(rt_ran, made)
    /\ rt_node' = add_edge(rt_node)
    /\ UNCHANGED notRouter

\* calendar_agent_node, then the edge calendar -> aggregate
CalendarAgentNode ==
    /\ rt_node = "calendar"
    /\ \E calendar_result \in CalendarResults :
          LET lowered == Lower(workspace_state.user_input)
              made == IF Contains(lowered, <<"t","o","d","a","y">>)
                      THEN [agent |-> A_calendar, call |-> "calendar_get_today_schedule"]
                      ELSE IF Contains(lowered, <<"f","r","e","e">>) \/ Contains(lowered, <<"a","v","a","i","l","a","b","l","e">>)
                      THEN [agent |-> A_calendar, call |-> "calendar_find_free_slots"]
                      ELSE [agent |-> A_calendar, call |-> "calendar_list_events"]
          IN  /\ workspace_state' =
                     Update(workspace_state,
                            [results  |-> DictPut(workspace_state.results, "calendar",
                                                  calendar_result),
                             messages |-> Append(workspace_state.messages,
                                                 AIMessage(calendar_result, <<>>))])
              /\ rt_ran' = Append(rt_ran, made)
    /\ rt_node' = add_edge(rt_node)
    /\ UNCHANGED notRouter

\* aggregator_node, then the edge aggregate -> END
AggregatorNode ==
    /\ rt_node = "aggregate"
    /\ workspace_state' =
          IF Cardinality(DOMAIN workspace_state.results) <= 1
          THEN workspace_state
          ELSE Update(workspace_state,
                      [messages |-> Append(workspace_state.messages,
                                           AIMessage(T_summary, <<>>))])
    /\ rt_node' = add_edge(rt_node)
    /\ UNCHANGED rt_ran
    /\ UNCHANGED notRouter

\* graph.invoke returns to process_request
RouterDone ==
    /\ rt_node = "END"
    /\ workspace_state' = [user_input |-> <<>>]
    /\ rt_node' = "idle"
    /\ rt_ran' = <<>>
    /\ UNCHANGED notRouter

RouterNext ==
    \/ RouterStart
    \/ OrchestratorNode
    \/ EmailAgentNode
    \/ CalendarAgentNode
    \/ AggregatorNode
    \/ RouterDone

SpecRouter == Init /\ [][RouterNext]_vars

\* C28: the orchestrator node is entered only from START, once per run, and no
\* edge leads back to it; it sees an empty delegation history and no messages,
\* so check_loop is evaluated on the empty history only; during a run the
\* delegation history holds at most one agent and loop_detected stays false.
C28_OrchestratorRunsOnce ==
    /\ [][ rt_node' = "orchestrator" => rt_node = "idle" ]_vars
    /\ [][ rt_node = "idle" => rt_node' = "orchestrator" ]_vars
    /\ [](rt_node = "orchestrator" =>
              /\ workspace_state.delegation_history = <<>>
              /\ workspace_state.messages = <<>>)
    /\ [](rt_node # "idle" =>
              /\ Len(workspace_state.delegation_history) <= 1
              /\ ~workspace_state.loop_detected)

\* C28 witness: a run that delegated to the email agent has ended with that
\* one agent in its delegation history
C28_Witness ==
    /\ rt_node = "END"
    /\ workspace_state.delegation_history = <<A_email>>
    /\ \E i \in DOMAIN rt_ran : rt_ran[i].agent = A_email
    /\ ~workspace_state.loop_detected

\* C19 (as claimed): a finished run on a request that matches the keywords of
\* two or more agents has run every matching agent, and its reply aggregates
\* more than one agent's result.
C19_FanOut ==
    (rt_node = "END" /\ can_execute_parallel(workspace_state.user_input) # <<>>) =>
        /\ \A agent \in Elements(can_execute_parallel(workspace_state.user_input)) :
              \E i \in DOMAIN rt_ran : rt_ran[i].agent = agent
        /\ Cardinality(DOMAIN workspace_state.results) > 1

(***************************************************************************)
(* agents/task_agent.py: TaskAgent.identify_blockers as a function of the  *)
(* task list.  A task is a dict with id, title, status and dependencies;   *)
(* ids are unique in a list, a dependency may name a task that is not      *)
(* listed, and the dependency graph may have cycles.                       *)
(***************************************************************************)
\* bound on the number of tasks in a list
MaxTasks == 3

\* an id no listed task has
MissingId == MaxTasks + 1

Statuses == {"todo", "completed"}

\* the dependency lists a task may carry, over the ids 1..n
DependencyLists(n) ==
    {<<>>} \cup { <<d>> : d \in (1..n) \cup {MissingId} } \cup { <<1, 2>>, <<2, MissingId>> }

\* the list of n tasks with the statuses st and the dependency lists deps
TaskListOf(n, st, deps) ==
    [i \in 1..n |-> [id |-> i, title |-> i, status |-> st[i], dependencies |-> deps[i]]]

NotCompleted(task) == task.status \notin {"completed"}

\* (mutant) a dependency blocks whatever its status is
incomplete_deps_any_status(tasks, task) ==
    SelectSeq(task.dependencies,
              LAMBDA dep : \E i \in DOMAIN tasks : tasks[i].id = dep)

\* the dependencies of `task` that some listed task which is not completed has as id
incomplete_deps(tasks, task) ==
    SelectSeq(task.dependencies,
              LAMBDA dep : \E i \in DOMAIN tasks : tasks[i].id = dep /\ NotCompleted(tasks[i]))

\* `next((t for t in tasks if t.get("id") == dep_id), None)`: its index, 0 for None
FirstWithId(tasks, dep_id) ==
    IF \E i \in DOMAIN tasks : tasks[i].id = dep_id
    THEN CHOOSE i \in DOMAIN tasks :
             tasks[i].id = dep_id /\ \A j \in 1..(i - 1) : tasks[j].id # dep_id
    ELSE 0

\* identify_blockers.  blocking_tasks is built by iterating a Python set, whose
\* order is not defined: it is kept as the set of its entries.
identify_blockers(tasks) ==
    LET with_deps == SelectSeq(tasks, LAMBDA task : task.dependencies # <<>>)
        blocked   == SelectSeq(with_deps, LAMBDA task : incomplete_deps(tasks, task) # <<>>)
        all_deps  == UNION { Elements(tasks[i].dependencies) : i \in DOMAIN tasks }
        blockers  == { dep_id \in all_deps :
                          /\ FirstWithId(tasks, dep_id) # 0
                          /\ NotCompleted(tasks[FirstWithId(tasks, dep_id)]) }
    IN  [blocked_tasks |->
            [i \in DOMAIN blocked |->
                [task_id |-> blocked[i].id, task_title |-> blocked[i].title,
                 blocked_by |-> incomplete_deps(tasks, blocked[i])]],
         blocking_tasks |->
            { [task_id |-> tasks[FirstWithId(tasks, dep_id)].id,
               task_title |-> tasks[FirstWithId(tasks, dep_id)].title,
               blocking_count |->
                   Cardinality({ i \in DOMAIN tasks :
                                     dep_id \in Elements(tasks[i].dependencies) })] :
              dep_id \in blockers },
         critical_path |-> <<>>]

BlockersInit ==
    /\ ImpureInit
    /\ \E n \in 0..MaxTasks :
          \E st \in [1..n -> Statuses], deps \in [1..n -> DependencyLists(n)] :
             pure_in = [fn |-> "identify_blockers", tasks |-> TaskListOf(n, st, deps)]
    /\ pure_out = NotCalled

IdentifyBlockers ==
    /\ pure_in.fn = "identify_blockers"
    /\ ~pure_out.done
    /\ pure_out' = [done |-> TRUE, value |-> identify_blockers(pure_in.tasks)]
    /\ UNCHANGED pure_in
    /\ UNCHANGED notPure

BlockersNext == IdentifyBlockers

SpecBlockers == BlockersInit /\ [][BlockersNext]_vars

BlockersCalled == pure_in.fn = "identify_blockers" /\ pure_out.done

\* A completed, B todo depending on A, C todo depending on B
ChainABC ==
    << [id |-> 1, title |-> 1, status |-> "completed", dependencies |-> <<>>],
       [id |-> 2, title |-> 2, status |-> "todo", dependencies |-> <<1>>],
       [id |-> 3, title |-> 3, status |-> "todo", dependencies |-> <<2>>] >>

\* C20: for every task list, cyclic or not, identify_blockers returns; a task
\* is reported blocked exactly when one of its dependencies is a listed task
\* that is not completed, blocked_by being those dependencies; the blocking
\* tasks are exactly the listed tasks that are not completed and occur in some
\* task's dependencies, each with the number of tasks that list it; for the
\* chain A (completed) <- B <- C, C is blocked by B and B blocks one task.
C20_BlockersExact ==
    BlockersCalled =>
        LET tasks    == pure_in.tasks
            blocked  == pure_out.value.blocked_tasks
            blocking == pure_out.value.blocking_tasks
            Open(d)  == \E j \in DOMAIN tasks : tasks[j].id = d /\ tasks[j].status # "completed"
            Listers(id) == { i \in DOMAIN tasks : id \in Elements(tasks[i].dependencies) }
        IN  /\ \A i \in DOMAIN tasks :
                  LET mine == { k \in DOMAIN blocked : blocked[k].task_id = tasks[i].id }
                  IN  IF \E d \in Elements(tasks[i].dependencies) : Open(d)
                      THEN /\ Cardinality(mine) = 1
                           /\ \A k \in mine :
                                 blocked[k].blocked_by = SelectSeq(tasks[i].dependencies, Open)
                      ELSE mine = {}
            /\ \A k \in DOMAIN blocked : \E i \in DOMAIN tasks : blocked[k].task_id = tasks[i].id
            /\ \A j \in DOMAIN tasks :
                  LET mine == { e \in blocking : e.task_id = tasks[j].id }
                  IN  IF tasks[j].status # "completed" /\ Listers(tasks[j].id) # {}
                      THEN /\ Cardinality(mine) = 1
                           /\ \A e \in mine : e.blocking_count = Cardinality(Listers(tasks[j].id))
                      ELSE mine = {}
            /\ \A e \in blocking : \E j \in DOMAIN tasks : e.task_id = tasks[j].id
            /\ tasks = ChainABC =>
                  /\ blocked = << [task_id |-> 3, task_title |-> 3, blocked_by |-> <<2>>] >>
                  /\ blocking = { [task_id |-> 2, task_title |-> 2, blocking_count |-> 1] }

\* C20 witness: the call on a list whose first two tasks depend on each other
\* and are both open returned, reporting both blocked
C20_Witness ==
    /\ BlockersCalled
    /\ Len(pure_in.tasks) = MaxTasks
    /\ pure_in.tasks[1].dependencies = <<2>>
    /\ pure_in.tasks[2].dependencies = <<1>>
    /\ pure_in.tasks[1].status = "todo"
    /\ pure_in.tasks[2].status = "todo"
    /\ Len(pure_out.value.blocked_tasks) >= 2

(***************************************************************************)
(* tools/calendar_tools.py: calendar_find_free_slots as a function of the  *)
(* events the Calendar service lists for the day and of duration_minutes.  *)
(* A datetime is its minute counted from 00:00 of the requested date and   *)
(* whether it carries a UTC offset.  An event's start and end are either a *)
(* 'dateTime' (RFC 3339, with its offset) or, for an all-day event, a      *)
(* 'date'.                                                                 *)
(***************************************************************************)
\* bound on the number of events listed for the day
MaxDayEvents == 2

\* start_date.replace(hour=9, minute=0) and start_date.replace(hour=17, minute=0):
\* built from strptime, without tzinfo
WindowStart == [minute |-> 9 * 60, aware |-> FALSE]
WindowEnd   == [minute |-> 17 * 60, aware |-> FALSE]

\* the minutes at which the drawn events start and end: 08:00 .. 18:00
EventMinutes == {480, 540, 600, 720, 960, 1020, 1080}

Durations == {60, 120}

TimedEvents ==
    { [start |-> [dateTime |-> a], end |-> [dateTime |-> b]] :
          a \in { m \in EventMinutes : m < WindowEnd.minute },
          b \in { m \in EventMinutes : m > WindowStart.minute } }

\* an all-day event of the requested date: start.date is the date, end.date the next day
AllDayEvent == [start |-> [date |-> 0], end |-> [date |-> 1]]

StartMinute(event) ==
    IF "dateTime" \in DOMAIN event.start THEN event.start.dateTime ELSE 1440 * event.start.date

EndMinute(event) ==
    IF "dateTime" \in DOMAIN event.end THEN event.end.dateTime ELSE 1440 * event.end.date

DayEvents == { event \in TimedEvents \cup {AllDayEvent} : StartMinute(event) < EndMinute(event) }

\* datetime.fromisoformat(point.get('dateTime', point.get('date')).replace('Z', '+00:00'))
fromisoformat(point) ==
    IF "dateTime" \in DOMAIN point
    THEN [minute |-> point.dateTime, aware |-> TRUE]
    ELSE [minute |-> 1440 * point.date, aware |-> FALSE]

\* strftime('%H:%M'): the date is dropped
strftime(time) == [H |-> (time.minute % 1440) \div 60, M |-> time.minute % 60]

\* subtracting or comparing an aware and a naive datetime raises TypeError
Mixed(a, b) == a.aware # b.aware

TypeError == [kind |-> "TypeError"]

\* the loop over events from the i-th on, then the check at the end of the day
RECURSIVE free_slots_from(_, _, _, _, _)
free_slots_from(events, i, current_time, free_slots, duration_minutes) ==
    IF i > Len(events)
    THEN IF Mixed(WindowEnd, current_time) THEN TypeError
         ELSE [kind |-> "slots",
               slots |-> IF WindowEnd.minute - current_time.minute >= duration_minutes
                         THEN Append(free_slots, [start |-> strftime(current_time),
                                                  end   |-> strftime(WindowEnd)])
                         ELSE free_slots]
    ELSE LET event_start == fromisoformat(events[i].start)
             event_end   == fromisoformat(events[i].end)
         IN  IF Mixed(event_start, current_time) THEN TypeError
             ELSE IF Mixed(current_time, event_end) THEN TypeError
             ELSE free_slots_from(
                      events, i + 1,
                      IF event_end.minute > current_time.minute THEN event_end ELSE current_time,
                      IF event_start.minute - current_time.minute >= duration_minutes
                      THEN Append(free_slots, [start |-> strftime(current_time),
                                               end   |-> strftime(event_start)])
                      ELSE free_slots,
                      duration_minutes)

\* calendar_find_free_slots once the service has answered: HttpError and
\* ValueError are the only exceptions it catches
calendar_find_free_slots(events, duration_minutes) ==
    free_slots_from(events, 1, WindowStart, <<>>, duration_minutes)

SlotsInit ==
    /\ ImpureInit
    /\ \E n \in 0..MaxDayEvents, duration_minutes \in Durations :
          \E events \in [1..n -> DayEvents] :
              /\ \A i \in 1..(n - 1) : StartMinute(events[i]) <= StartMinute(events[i + 1])
              /\ pure_in = [fn |-> "calendar_find_free_slots", events |-> events,
                            duration_minutes |-> duration_minutes]
    /\ pure_out = NotCalled

FindFreeSlots ==
    /\ pure_in.fn = "calendar_find_free_slots"
    /\ ~pure_out.done
    /\ pure_out' = [done |-> TRUE,
                    value |-> calendar_find_free_slots(pure_in.events, pure_in.duration_minutes)]
    /\ UNCHANGED pure_in
    /\ UNCHANGED notPure

SlotsNext == FindFreeSlots

SpecSlots == SlotsInit /\ [][SlotsNext]_vars

SlotsCalled == pure_in.fn = "calendar_find_free_slots" /\ pure_out.done

\* the maximal event-free intervals of the window that last at least `duration`
QualifyingGaps(events, duration) ==
    LET edges == {WindowStart.minute, WindowEnd.minute}
                     \cup { StartMinute(events[i]) : i \in DOMAIN events }
                     \cup { EndMinute(events[i]) : i \in DOMAIN events }
        Busy(a, b) == \E i \in DOMAIN events :
                          StartMinute(events[i]) < b /\ EndMinute(events[i]) > a
    IN  { <<a, b>> \in edges \X edges :
              /\ WindowStart.minute <= a
              /\ b <= WindowEnd.minute
              /\ b - a >= duration
              /\ ~Busy(a, b)
              /\ a = WindowStart.minute \/ \E i \in DOMAIN events : EndMinute(events[i]) = a
              /\ b = WindowEnd.minute \/ \E i \in DOMAIN events : StartMinute(events[i]) = b }

\* C21 (as claimed): for every list of events ordered by start time,
\* calendar_find_free_slots reports exactly the maximal event-free intervals
\* inside 09:00-17:00 that last at least the requested duration.
C21_FreeSlotsExact ==
    SlotsCalled =>
        /\ pure_out.value.kind = "slots"
        /\ { <<slot.start, slot.end>> :
                 slot \in Elements(pure_out.value.slots) }
             = { <<strftime([minute |-> gap[1]]), strftime([minute |-> gap[2]])>> :
                     gap \in QualifyingGaps(pure_in.events, pure_in.duration_minutes) }

(***************************************************************************)
(* memory.py: MemoryManager.store_context.  The index maps a vector id to  *)
(* the vector; upsert writes the vector under its id, replacing the vector *)
(* that id had.  The id ends in datetime.now().timestamp(), a reading of   *)
(* the wall clock: the clock may advance between two stores, stand still   *)
(* within its resolution, or have been set back.                           *)
(***************************************************************************)
\* bound on the number of store_context calls
MaxStores == 3

\* the wall clock reads 0..MaxReading
MaxReading == 1

ContextTypes == { <<"a">>, <<"a","_","b">> }
ContextIds   == { <<"c">>, <<"b","_","c">> }
Contents     == { <<"v","1">>, <<"v","2">> }

\* str() of a non-negative number
RECURSIVE Digits(_)
Digits(n) ==
    IF n < 10 THEN <<(<<"0","1","2","3","4","5","6","7","8","9">>)[n + 1]>>
    ELSE Digits(n \div 10) \o Digits(n % 10)

\* f"{context_type}_{context_id}_{datetime.now().timestamp()}"
VectorId(context_type, context_id, now) ==
    context_type \o <<"_">> \o context_id \o <<"_">> \o Digits(now)

\* index.upsert(vectors=[vector])
upsert(index, vector) ==
    [id \in DOMAIN index \cup {vector.id} |-> IF id = vector.id THEN vector ELSE index[id]]

\* store_context: `stamp` and `now` are the readings of its two datetime.now()
\* calls; `raises` when the embedding request or the upsert raises, which the
\* except clause turns into False
StoreContext ==
    /\ mem_call.n < MaxStores
    /\ \E context_type \in ContextTypes, context_id \in ContextIds, content \in Contents,
          stamp \in 0..MaxReading, now \in 0..MaxReading, raises \in BOOLEAN :
          LET full_metadata == [context_id |-> context_id, context_type |-> context_type,
                                timestamp |-> stamp, content |-> Take(content, 1000)]
              vector == [id |-> VectorId(context_type, context_id, now),
                         values |-> [embedding_of |-> content],
                         metadata |-> full_metadata]
          IN  IF raises
              THEN /\ mem_call' = [n |-> mem_call.n + 1, id |-> vector.id, returned |-> FALSE]
                   /\ UNCHANGED mem_index
              ELSE /\ mem_index' = upsert(mem_index, vector)
                   /\ mem_call' = [n |-> mem_call.n + 1, id |-> vector.id, returned |-> TRUE]
    /\ UNCHANGED notMem

\* the process is restarted against an emptied index
MemRestart ==
    /\ mem_call.n = MaxStores
    /\ mem_index' = [id \in {} |-> None]
    /\ mem_call' = [n |-> 0]
    /\ UNCHANGED notMem

MemNext == StoreContext \/ MemRestart

SpecMemory == Init /\ [][MemNext]_vars

\* C22 (as claimed): every store_context call that returns True wrote its
\* vector under an id the index did not hold before the call, so the number
\* of vectors grows by one and no earlier snapshot is replaced.
C22_NeverOverwrites ==
    [][(mem_call'.n = mem_call.n + 1 /\ mem_call'.returned)
          => /\ mem_call'.id \notin DOMAIN mem_index
             /\ \A id \in DOMAIN mem_index : mem_index'[id] = mem_index[id]]_vars

(***************************************************************************)
(* main.py, context_manager.py: the endpoints of the live server and the   *)
(* ContextManager singleton.  The server's orchestrator is the ReAct       *)
(* WorkspaceAssistant (main.py:18, 49-62); in a run of its graph the LLM   *)
(* may call any tool bound to it.  No socket is connected in this          *)
(* specification, so the broadcast of execute_workflow sends nothing.      *)
(***************************************************************************)
\* bound on the requests the orchestrator answers in this specification
MaxServerRequests == 1

ServerRoom ==
    /\ Len(conversation_messages) < 2 * MaxServerRequests
    /\ Len(session_history) < MaxServerRequests

\* (mutant) the context tools are bound to the ReAct agent as well
react_tools_with_context_tools ==
    {"get_current_time", "gmail_read_recent", "gmail_send_email", "gmail_search",
     "calendar_get_today_schedule", "calendar_list_events", "calendar_create_event",
     "calendar_find_free_slots",
     "summarize_conversation", "search_context_history", "get_context_stats"}

\* `tools` of create_agent: the tools bound to the ReAct agent's LLM
react_tools ==
    {"get_current_time", "gmail_read_recent", "gmail_send_email", "gmail_search",
     "calendar_get_today_schedule", "calendar_list_events", "calendar_create_event",
     "calendar_find_free_slots"}

\* context_manager.context_tools: exported, imported by no module
context_tools == {"summarize_conversation", "search_context_history", "get_context_stats"}

\* ContextManager.summarize_context: the new (full_history, summarized_context),
\* `summary` being the LLM's response.content
summarize_context(history, msgs, summary) ==
    [full_history |-> history \o msgs, summarized_context |-> summary]

\* the tool summarize_conversation(messages)
summarize_conversation(history, strings, summary) ==
    summarize_context(history, [i \in DOMAIN strings |-> HumanMessage(strings[i])], summary)

\* the tool search_context_history(query)
search_context_history(history, query) ==
    IF history = <<>> THEN [kind |-> "No conversation history available."]
    ELSE LET query_lower == Lower(query)
             relevant == SelectSeq(history,
                                   LAMBDA msg : Contains(Lower(msg.content), query_lower))
         IN  IF relevant = <<>> THEN [kind |-> "No matches found", query |-> query]
             ELSE [kind |-> "Found", count |-> Len(relevant),
                   excerpts |-> [i \in 1..Min(Len(relevant), 5) |->
                                    Take(relevant[i].content, 200)]]

\* the tool calls the LLM may make in a run, and the ToolMessage that answers one
ServerToolCalls == { [name |-> tool, args |-> <<T_plain>>] : tool \in react_tools }
ToolReply(tool_call) ==
    [type |-> "tool", content |-> T_tool, more |-> 0, tool_calls |-> <<>>,
     name |-> tool_call.name]

\* what a run of the ReAct graph appends: the final answer, or one tool round
\* and then the final answer
ServerOutputs ==
    { <<AIMessage(T_answer, <<>>)>> }
        \cup { <<AIMessage(<<>>, <<tool_call>>), ToolReply(tool_call), AIMessage(T_answer, <<>>)>> :
                   tool_call \in ServerToolCalls }

\* the tool node runs the calls: of the tools, summarize_conversation alone
\* writes to the ContextManager
RECURSIVE RunToolCalls(_, _)
RunToolCalls(cm, tool_calls) ==
    IF tool_calls = <<>> THEN cm
    ELSE RunToolCalls(
             IF Head(tool_calls).name = "summarize_conversation"
             THEN summarize_conversation(cm.full_history, Head(tool_calls).args, T_summary)
             ELSE cm,
             Tail(tool_calls))

RECURSIVE ToolCallsOf(_)
ToolCallsOf(msgs) ==
    IF msgs = <<>> THEN <<>> ELSE Head(msgs).tool_calls \o ToolCallsOf(Tail(msgs))

\* orchestrator.process_request(raw_input) as an endpoint calls it, with what
\* the tools of the run did to the ContextManager; when graph.invoke raised,
\* a tool may have run before
ServerProcessRequest(conversation, log, raw_input) ==
    /\ process_request(conversation, log, raw_input, ServerOutputs)
    /\ \E ran \in {<<>>} \cup { <<tool_call>> : tool_call \in ServerToolCalls } :
          LET cm  == [full_history |-> full_history,
                      summarized_context |-> summarized_context]
              new == IF request'.response.kind = "answer"
                     THEN RunToolCalls(cm, ToolCallsOf(request'.result))
                     ELSE RunToolCalls(cm, ran)
          IN  /\ request'.response.kind = "answer" => ran = <<>>
              /\ full_history' = new.full_history
              /\ summarized_context' = new.summarized_context
    /\ UNCHANGED router_history
    /\ UNCHANGED serverFrame

\* POST /api/ai/chat.  The handler reads its own request body and then calls
\* process_request without a further await; the two are taken as one step
\* here, the order in which suspended handlers resume being the order of
\* these steps.
ServerAiChat ==
    /\ ServerRoom
    /\ \E user_message \in OrchInputs :
          ServerProcessRequest(conversation_messages, react_log, user_message)
    /\ http_response' = [endpoint |-> "ai_chat"]
    /\ UNCHANGED http_pending

\* GET /api/ai/triage
ServerAiTriage ==
    /\ Len(session_history) < MaxServerRequests
    /\ ServerProcessRequest(<<>>, <<>>, T_triage_prompt)
    /\ http_response' = [endpoint |-> "ai_triage"]
    /\ UNCHANGED http_pending

\* GET /api/ai/daily-brief
ServerDailyBrief ==
    /\ Len(session_history) < MaxServerRequests
    /\ ServerProcessRequest(<<>>, <<>>, T_brief_prompt)
    /\ http_response' = [endpoint |-> "daily_brief"]
    /\ UNCHANGED http_pending

T_workflow == <<"e","m","a","i","l","_","t","r","i","a","g","e",":"," ","{","}">>

\* POST /api/workflow/execute
ServerExecuteWorkflow ==
    /\ ServerRoom
    /\ ServerProcessRequest(conversation_messages, react_log, T_workflow)
    /\ http_response' = [endpoint |-> "execute_workflow"]
    /\ UNCHANGED http_pending

\* POST /api/workflow/approve
ApproveWorkflow ==
    /\ \E approved \in BOOLEAN :
          http_response' = [endpoint |-> "approve_workflow",
                            status |-> IF approved THEN "approved" ELSE "rejected"]
    /\ UNCHANGED <<full_history, summarized_context>>
    /\ UNCHANGED <<serverFrame, orchVars>>

\* GET /api/ai/context-summary
ContextSummary ==
    /\ http_response' =
          [endpoint |-> "context_summary",
           total_messages |-> Len(full_history),
           context_length |-> SumContentLen(full_history),
           is_summarized  |-> Len(summarized_context) > 0,
           summary_length |-> IF summarized_context # <<>> THEN Len(summarized_context) ELSE 0]
    /\ UNCHANGED <<full_history, summarized_context>>
    /\ UNCHANGED <<serverFrame, orchVars>>

\* POST /api/ai/search-context
SearchContext ==
    /\ \E query \in {<<>>, T_query} :
          http_response' =
              IF query = <<>>
              THEN [endpoint |-> "search_context", status_code |-> 400]
              ELSE [endpoint |-> "search_context", status_code |-> 200,
                    results |-> search_context_history(full_history, query)]
    /\ UNCHANGED <<full_history, summarized_context>>
    /\ UNCHANGED <<serverFrame, orchVars>>

ServerNext ==
    \/ ServerAiChat
    \/ ServerAiTriage
    \/ ServerDailyBrief
    \/ ServerExecuteWorkflow
    \/ ApproveWorkflow
    \/ ContextSummary
    \/ SearchContext

SpecServer == Init /\ [][ServerNext]_vars

\* C29: whatever requests the server's endpoints have handled, the
\* ContextManager's full history is empty and its summary is not set; so
\* /api/ai/context-summary reports zero messages and not summarized, and
\* /api/ai/search-context, given a query, answers that no conversation history
\* is available.
C29_ContextManagerUnused ==
    /\ full_history = <<>>
    /\ summarized_context = <<>>
    /\ http_response.endpoint = "context_summary" =>
          /\ http_response.total_messages = 0
          /\ ~http_response.is_summarized
    /\ (http_response.endpoint = "search_context" /\ http_response.status_code = 200) =>
          http_response.results = [kind |-> "No conversation history available."]

\* C29 witness: after a request in whose run the agent called a tool,
\* search-context was asked and answered
C29_Witness ==
    /\ Len(session_history) = MaxServerRequests
    /\ react_results.tool_calls >= 1
    /\ http_response.endpoint = "search_context"
    /\ http_response.status_code = 200

=============================================================================
